---- MODULE Spec2Model ----
(***************************************************************************)
(* A model of the phoneshop backend (backend/server.js: an Express server  *)
(* over a MongoDB collection of user accounts, accessed through Mongoose)  *)
(* and of the cart and wishlist managers of the storefront client          *)
(* (frontend/lib/main.dart).                                               *)
(*                                                                         *)
(* Every request handler is an async function: it runs atomically between *)
(* two awaits, and other handlers run while it awaits the database.  A     *)
(* handler is therefore modelled as one action per database round trip.    *)
(* Strings that the code converts (toLowerCase, ObjectId parsing) are      *)
(* sequences of one-character strings, so that the conversions are         *)
(* computed and not assumed.                                               *)
(***************************************************************************)
EXTENDS Integers, Sequences, FiniteSets, TLC

VARIABLES
    accounts,   \* the users_create_account collection, in insertion order; _id = position
    issued,     \* the tokens the server has handed out so far
    now,        \* the server clock (Date.now())
    req,        \* per connection: the handler waiting for its database write
    out,        \* the HTTP response sent by the last step (NoResp if it sent none)
    items,      \* client CartManager._items
    wishItems,  \* client WishlistManager._items
    running,    \* which of the two programs this behaviour exercises
    ui          \* client: the navigator's pages, the loading flags and the requests in flight

serverVars == <<accounts, issued, now, req, out>>
clientVars == <<items, wishItems, ui>>
vars == <<accounts, issued, now, req, out, items, wishItems, running, ui>>

----------------------------------------------------------------------------
(* Bounds of the model.  The program bounds none of these; a specification *)
(* does not send the request that would exceed one.                          *)

\* The clock stops at MaxTime.
MaxTime == 1

\* The largest quantity of a cart line.
MaxQuantity == 3

\* The largest number of entries of a purchase history.
MaxHistory == 2

\* The same, where two accounts shop.
MaxQuantityEach == 1
MaxHistoryEach == 1

----------------------------------------------------------------------------
(* Strings.  A string is a sequence of one-character strings; an absent    *)
(* field of a request body is the empty string (both are falsy in          *)
(* JavaScript).                                                            *)

\* String.prototype.toLowerCase, on the alphabet the model uses.
LowerChar(c) ==
    CASE c = "A" -> "a"
      [] c = "B" -> "b"
      [] c = "D" -> "d"
      [] c = "E" -> "e"
      [] c = "R" -> "r"
      [] c = "X" -> "x"
      [] OTHER -> c

ToLowerCase(s) == [i \in 1..Len(s) |-> LowerChar(s[i])]

\* !field of the handlers' validation.
Falsy(s) == s = <<>>

HexDigits == {"0", "1", "2", "3", "4", "5", "6", "7", "8", "9",
              "a", "b", "c", "d", "e", "f", "A", "B", "C", "D", "E", "F"}

\* mongoose.Types.ObjectId.isValid on a string: a string of hexadecimal digits
\* (of 24 of them in the program; the model's identifiers are shorter).
IsValidObjectId(s) == s # <<>> /\ \A i \in 1..Len(s) : s[i] \in HexDigits

\* new mongoose.Types.ObjectId(s): the identifier the hexadecimal string denotes,
\* written in its canonical lower-case form.
ObjectId(s) == ToLowerCase(s)

\* fullName.split(' ')[0] and fullName.split(' ').slice(1).join(' ').
SpaceAt(s) == {i \in 1..Len(s) : s[i] = " "}
FirstSpace(s) == CHOOSE i \in SpaceAt(s) : \A j \in SpaceAt(s) : i <= j
FirstWord(s) == IF SpaceAt(s) = {} THEN s ELSE SubSeq(s, 1, FirstSpace(s) - 1)
RestWords(s) == IF SpaceAt(s) = {} THEN <<>> ELSE SubSeq(s, FirstSpace(s) + 1, Len(s))

\* a || b of two strings.
OrElse(a, b) == IF Falsy(a) THEN b ELSE a

----------------------------------------------------------------------------
(* Credentials and tokens. *)

\* bcrypt.hash(password, 10): a salted digest; the salt is drawn by the library.
Salts == {"s1"}
BcryptHash(password, salt) == [salt |-> salt, digest |-> <<salt, password>>]

\* A comparison that accepts every password.
BcryptCompareAny(password, hash) == TRUE

\* bcrypt.compare(password, hash): recomputes the digest with the stored salt.
BcryptCompare(password, hash) == hash.digest = <<hash.salt, password>>

JWT_SECRET == "appifyours-secret-key-change-in-production"

\* jwt.sign({ userId, email, adminObjectId }, JWT_SECRET, { expiresIn: '30d' }).
\* The signature binds the payload to the secret.  The expiry claim is 30 days
\* after issue; the model's clock counts milliseconds, so whether the 30 days
\* have passed is an input of the request that presents the token.
JwtSign(userId, email, adminObjectId) ==
    [userId |-> userId, email |-> email, adminObjectId |-> adminObjectId,
     sig |-> JWT_SECRET]

\* A token signed with another key, for each payload the model can present.
ForgedToken == [userId |-> 1, email |-> <<"a", "@", "x">>, adminObjectId |-> <<"a", "a">>,
                sig |-> "another-secret"]

\* No Authorization header.
NoToken == [userId |-> 0, email |-> <<>>, adminObjectId |-> <<>>, sig |-> ""]

\* jwt.verify(token, JWT_SECRET): the signature is ours and the token has not expired.
JwtVerify(token, expired) == token.sig = JWT_SECRET /\ ~expired

----------------------------------------------------------------------------
(* The account collection. *)

\* new UsersCreateAccount({...}): the schema lower-cases the email and gives the
\* three collections their empty defaults.  (It also trims the email; the
\* emails of the model have no surrounding spaces.)
NewAccount(adminObjectId, firstName, lastName, email, password, phone, t) ==
    [adminObjectId |-> adminObjectId, firstName |-> firstName, lastName |-> lastName,
     email |-> ToLowerCase(email), password |-> password, phone |-> phone,
     purchaseHistory |-> <<>>, wishlist |-> <<>>, cart |-> <<>>,
     updatedAt |-> t, v |-> 0]

\* UsersCreateAccount.findOne({ adminObjectId, email }): the _id of the first
\* matching document, 0 for null.
Matching(coll, adminObjectId, email) ==
    {i \in 1..Len(coll) : coll[i].adminObjectId = adminObjectId /\ coll[i].email = email}
FindOne(coll, adminObjectId, email) ==
    IF Matching(coll, adminObjectId, email) = {} THEN 0
    ELSE CHOOSE i \in Matching(coll, adminObjectId, email) :
             \A j \in Matching(coll, adminObjectId, email) : i <= j

\* The lookup without email.toLowerCase().
FindAccountCaseSensitive(coll, body) == FindOne(coll, ObjectId(body.adminObjectId), body.email)

\* The lookup by email alone, in every tenant.
FindAccountAnyTenant(coll, body) ==
    IF \E i \in 1..Len(coll) : coll[i].email = ToLowerCase(body.email)
    THEN CHOOSE i \in 1..Len(coll) :
            /\ coll[i].email = ToLowerCase(body.email)
            /\ \A j \in 1..Len(coll) : coll[j].email = ToLowerCase(body.email) => i <= j
    ELSE 0

\* The handlers' lookup of the account a body names:
\* findOne({ adminObjectId: new ObjectId(adminObjectId), email: email.toLowerCase() }).
FindAccount(coll, body) == FindOne(coll, ObjectId(body.adminObjectId), ToLowerCase(body.email))

\* A lookup that ignores the id: the first document of the collection.
FindFirst(coll, id) == IF coll # <<>> THEN 1 ELSE 0

\* UsersCreateAccount.findById(id): the _id if the document exists, 0 for null.
FindById(coll, id) == IF id \in 1..Len(coll) THEN id ELSE 0

\* The collection without its unique index.
UniqueIndexMissing(coll, doc) == TRUE

\* The unique index on { adminObjectId: 1, email: 1 }: MongoDB accepts an insert
\* only if no stored document has the same pair.
UniqueIndexAllows(coll, doc) ==
    \A i \in 1..Len(coll) :
        ~(coll[i].adminObjectId = doc.adminObjectId /\ coll[i].email = doc.email)

\* The schema's required: true on the string fields: Mongoose rejects a
\* document in which one of them is empty before it reaches the database.
SchemaValid(doc) ==
    /\ ~Falsy(doc.firstName) /\ ~Falsy(doc.lastName) /\ ~Falsy(doc.email)
    /\ ~Falsy(doc.phone)

----------------------------------------------------------------------------
(* Responses. *)

Resp(op, in, status, error, data) ==
    [op |-> op, in |-> in, status |-> status, error |-> error, data |-> data]
NoResp == Resp("none", <<>>, 0, "", <<>>)
NoData == <<>>

Idle == [pc |-> "idle"]

\* The JSON body a handler writes with res.json: the failures write success
\* and error; GET /health writes status and timestamp; POST /api/users/check
\* writes success and exists; the account routes and the order route add a
\* message to success and data; the other routes write success and data.
Json(resp) ==
    IF resp.op = "health"
    THEN [status |-> resp.data.status, timestamp |-> resp.data.timestamp]
    ELSE IF resp.status # 200
    THEN [success |-> FALSE, error |-> resp.error]
    ELSE IF resp.op = "check"
    THEN [success |-> TRUE, exists |-> resp.data.exists]
    ELSE IF resp.op \in {"register", "create-user", "login", "orders"}
    THEN [success |-> TRUE, message |-> resp.op, data |-> resp.data]
    ELSE [success |-> TRUE, data |-> resp.data]

ErrAllFields == "All fields are required"
ErrCreateFields == "adminObjectId, email, and password are required"
ErrInvalidAdmin == "Invalid adminObjectId"
ErrDuplicate == "User already exists with this email"
ErrCredentials == "Invalid email or password"
ErrNoToken == "Access token required"
ErrBadToken == "Invalid or expired token"
ErrNotFound == "User not found"
ErrEmptyCart == "Cart is empty"
ErrCheckFields == "adminObjectId and email are required"
\* error.message of the exceptions the handlers' catch blocks serialize
ErrDupKey == "E11000 duplicate key error collection: users_create_account"
ErrValidation == "UsersCreateAccount validation failed"
ErrVersion == "No matching document found for id"

----------------------------------------------------------------------------
(* POST /api/users/register *)

\* A handler that checks the tenant reference before the required fields.
RegisterTenantFirst(r, body) ==
    /\ req[r] = Idle
    /\ IF ~IsValidObjectId(body.adminObjectId)
       THEN /\ out' = Resp("register", body, 400, ErrInvalidAdmin, NoData)
            /\ UNCHANGED req
       ELSE IF \/ Falsy(body.firstName) \/ Falsy(body.lastName)
               \/ Falsy(body.email) \/ Falsy(body.password) \/ Falsy(body.phone)
       THEN /\ out' = Resp("register", body, 400, ErrAllFields, NoData)
            /\ UNCHANGED req
       ELSE IF FindAccount(accounts, body) # 0
       THEN /\ out' = Resp("register", body, 400, ErrDuplicate, NoData)
            /\ UNCHANGED req
       ELSE \E salt \in Salts :
            /\ req' = [req EXCEPT ![r] =
                   [pc |-> "save", op |-> "register", body |-> body,
                    user |-> NewAccount(ObjectId(body.adminObjectId), body.firstName,
                                        body.lastName, body.email,
                                        BcryptHash(body.password, salt), body.phone, now)]]
            /\ out' = NoResp
    /\ UNCHANGED <<accounts, issued, now, items, wishItems, running, ui>>

\* Up to the first database write: the validation, the lookup of an existing
\* account and the hashing of the password.
Register(r, body) ==
    /\ req[r] = Idle
    /\ IF \/ Falsy(body.adminObjectId) \/ Falsy(body.firstName) \/ Falsy(body.lastName)
          \/ Falsy(body.email) \/ Falsy(body.password) \/ Falsy(body.phone)
       THEN /\ out' = Resp("register", body, 400, ErrAllFields, NoData)
            /\ UNCHANGED req
       ELSE IF ~IsValidObjectId(body.adminObjectId)
       THEN /\ out' = Resp("register", body, 400, ErrInvalidAdmin, NoData)
            /\ UNCHANGED req
       ELSE IF FindAccount(accounts, body) # 0
       THEN /\ out' = Resp("register", body, 400, ErrDuplicate, NoData)
            /\ UNCHANGED req
       ELSE \E salt \in Salts :
            /\ req' = [req EXCEPT ![r] =
                   [pc |-> "save", op |-> "register", body |-> body,
                    user |-> NewAccount(ObjectId(body.adminObjectId), body.firstName,
                                        body.lastName, body.email,
                                        BcryptHash(body.password, salt), body.phone, now)]]
            /\ out' = NoResp
    /\ UNCHANGED <<accounts, issued, now, items, wishItems, running, ui>>

\* await user.save() of a new document, then the token and the response.  A
\* rejected save throws into the handler's catch block, which answers 500.
SaveNew(r, op) ==
    /\ req[r].pc = "save" /\ req[r].op = op
    /\ LET user == req[r].user
           body == req[r].body
           id == Len(accounts) + 1
           token == JwtSign(id, user.email, body.adminObjectId)
       IN IF ~SchemaValid(user)
          THEN /\ out' = Resp(op, body, 500, ErrValidation, NoData)
               /\ UNCHANGED <<accounts, issued>>
          ELSE IF ~UniqueIndexAllows(accounts, user)
          THEN /\ out' = Resp(op, body, 500, ErrDupKey, NoData)
               /\ UNCHANGED <<accounts, issued>>
          ELSE /\ accounts' = Append(accounts, user)
               /\ issued' = issued \cup {token}
               /\ out' = Resp(op, body, 200, "",
                              [userId |-> id, email |-> user.email, token |-> token])
    /\ req' = [req EXCEPT ![r] = Idle]
    /\ UNCHANGED <<now, items, wishItems, running, ui>>

RegisterSave(r) == SaveNew(r, "register")

----------------------------------------------------------------------------
(* POST /api/create-user *)

CreateUser(r, body) ==
    /\ req[r] = Idle
    /\ IF Falsy(body.adminObjectId) \/ Falsy(body.email) \/ Falsy(body.password)
       THEN /\ out' = Resp("create-user", body, 400, ErrCreateFields, NoData)
            /\ UNCHANGED req
       ELSE IF ~IsValidObjectId(body.adminObjectId)
       THEN /\ out' = Resp("create-user", body, 400, ErrInvalidAdmin, NoData)
            /\ UNCHANGED req
       ELSE IF FindAccount(accounts, body) # 0
       THEN /\ out' = Resp("create-user", body, 400, ErrDuplicate, NoData)
            /\ UNCHANGED req
       ELSE \E salt \in Salts :
            /\ req' = [req EXCEPT ![r] =
                   [pc |-> "save", op |-> "create-user", body |-> body,
                    user |-> NewAccount(ObjectId(body.adminObjectId),
                                        OrElse(body.firstName, FirstWord(body.fullName)),
                                        OrElse(body.lastName, RestWords(body.fullName)),
                                        body.email,
                                        BcryptHash(body.password, salt), body.phone, now)]]
            /\ out' = NoResp
    /\ UNCHANGED <<accounts, issued, now, items, wishItems, running, ui>>

CreateUserSave(r) == SaveNew(r, "create-user")

----------------------------------------------------------------------------
(* POST /api/users/login *)

Login(r, body) ==
    /\ req[r] = Idle
    /\ LET user == FindAccount(accounts, body)
           token == JwtSign(user, accounts[user].email, body.adminObjectId)
       IN IF Falsy(body.adminObjectId) \/ Falsy(body.email) \/ Falsy(body.password)
          THEN /\ out' = Resp("login", body, 400, ErrAllFields, NoData)
               /\ UNCHANGED issued
          ELSE IF ~IsValidObjectId(body.adminObjectId)
          THEN /\ out' = Resp("login", body, 400, ErrInvalidAdmin, NoData)
               /\ UNCHANGED issued
          ELSE IF user = 0
          THEN /\ out' = Resp("login", body, 401, ErrCredentials, NoData)
               /\ UNCHANGED issued
          ELSE IF ~BcryptCompare(body.password, accounts[user].password)
          THEN /\ out' = Resp("login", body, 401, ErrCredentials, NoData)
               /\ UNCHANGED issued
          ELSE /\ issued' = issued \cup {token}
               /\ out' = Resp("login", body, 200, "",
                              [userId |-> user, email |-> accounts[user].email,
                               token |-> token])
    /\ UNCHANGED <<accounts, now, req, items, wishItems, running, ui>>

----------------------------------------------------------------------------
(* POST /api/users/check and GET /health *)

CheckUser(r, body) ==
    /\ req[r] = Idle
    /\ IF Falsy(body.adminObjectId) \/ Falsy(body.email)
       THEN out' = Resp("check", body, 400, ErrCheckFields, NoData)
       ELSE IF ~IsValidObjectId(body.adminObjectId)
       THEN out' = Resp("check", body, 400, ErrInvalidAdmin, NoData)
       ELSE out' = Resp("check", body, 200, "",
                        [exists |-> FindAccount(accounts, body) # 0])
    /\ UNCHANGED <<accounts, issued, now, req, items, wishItems, running, ui>>

Health ==
    /\ running = "server"
    /\ out' = Resp("health", <<>>, 200, "", [status |-> "OK", timestamp |-> now])
    /\ UNCHANGED <<accounts, issued, now, req, items, wishItems, running, ui>>

\* The clock advances.
Tick ==
    /\ running = "server"
    /\ now' = now + 1
    /\ out' = NoResp
    /\ UNCHANGED <<accounts, issued, req, items, wishItems, running, ui>>

----------------------------------------------------------------------------
(* The protected routes.  A request presents a credential: the token of its *)
(* Authorization header (NoToken if there is none) and whether the token's  *)
(* 30 days have passed.                                                      *)

\* The token decoded without verifying its signature and expiry.
AuthenticateTokenUnverified(cred) == IF cred.token = NoToken THEN 401 ELSE 200

\* authenticateToken: 401 without a token, 403 if jwt.verify fails, otherwise
\* next() with req.user = the token's payload (written 200 here).
AuthenticateToken(cred) ==
    IF cred.token = NoToken THEN 401
    ELSE IF ~JwtVerify(cred.token, cred.expired) THEN 403
    ELSE 200

AuthError(status) == IF status = 401 THEN ErrNoToken ELSE ErrBadToken

\* The quantity as sent, 1 when the body has none.
QuantityAsSent(quantity) == IF quantity = <<>> THEN 1 ELSE quantity[1]

\* quantity || 1: an absent quantity (<<>>) and 0 are falsy.
QuantityOr1(quantity) == IF quantity = <<>> \/ quantity[1] = 0 THEN 1 ELSE quantity[1]

\* A find whose predicate never matches.
FindNothing(list, productId) == 0

\* array.find(item => item.productId === productId): the index of the first
\* line item of the product, 0 for undefined.
Lines(list, productId) == {i \in 1..Len(list) : list[i].productId = productId}
Find(list, productId) ==
    IF Lines(list, productId) = {} THEN 0
    ELSE CHOOSE i \in Lines(list, productId) : \A j \in Lines(list, productId) : i <= j

(***************************************************************************)
(* Document.save() of a loaded document.  Mongoose does not write the      *)
(* document back: it sends updateOne with the changes made to the loaded   *)
(* copy.  An element appended with push is sent as $push, an assignment to *)
(* a field of an array element as $set of the path cart.<index>.quantity,  *)
(* an assignment of a whole array as $set of the array.  Its versioning    *)
(* (the __v field, v here) adds to that: a $push increments __v; a $set    *)
(* below an array index is sent with the condition that __v is still the   *)
(* loaded one; a $set of a whole array does both.  When the condition does *)
(* not match any document, save() throws a VersionError.                   *)
(***************************************************************************)
NoChange ==
    [setQuantity |-> <<>>, pushCart |-> <<>>, pushWishlist |-> <<>>,
     pushHistory |-> <<>>, setCart |-> FALSE]

\* Versioning that guards the assignments below an array index only.
VersionWhereIndexed(delta) == delta.setQuantity # <<>>

VersionWhere(delta) == delta.setCart \/ delta.setQuantity # <<>>
\* Versioning that counts every save (the schema option optimisticConcurrency).
VersionIncAlways(delta) == TRUE

VersionInc(delta) ==
    \/ delta.setCart
    \/ delta.pushCart # <<>> \/ delta.pushWishlist # <<>> \/ delta.pushHistory # <<>>

\* Whether the update's condition matches the stored document.
SaveMatches(stored, loaded, delta) == VersionWhere(delta) => stored.v = loaded.v

\* An update that assigns the new entries to purchaseHistory and does not push
\* them.
SaveApplyAssigningHistory(stored, loaded, delta) ==
    [stored EXCEPT
        !.cart = IF delta.setCart THEN <<>>
                 ELSE IF delta.setQuantity # <<>>
                 THEN [@ EXCEPT ![delta.setQuantity[1]].quantity = delta.setQuantity[2]]
                 ELSE @ \o delta.pushCart,
        !.wishlist = @ \o delta.pushWishlist,
        !.purchaseHistory = IF delta.pushHistory # <<>> THEN delta.pushHistory ELSE @,
        !.updatedAt = loaded.updatedAt,
        !.v = IF VersionInc(delta) THEN @ + 1 ELSE @]

\* The stored document after the update.
SaveApply(stored, loaded, delta) ==
    [stored EXCEPT
        !.cart = IF delta.setCart THEN <<>>
                 ELSE IF delta.setQuantity # <<>>
                 THEN [@ EXCEPT ![delta.setQuantity[1]].quantity = delta.setQuantity[2]]
                 ELSE @ \o delta.pushCart,
        !.wishlist = @ \o delta.pushWishlist,
        !.purchaseHistory = @ \o delta.pushHistory,
        !.updatedAt = loaded.updatedAt,
        !.v = IF VersionInc(delta) THEN @ + 1 ELSE @]

\* The part of a protected handler up to findById: the token check and the
\* lookup of the account.  status 200 means the handler goes on with user.
Lookup(cred) ==
    LET status == AuthenticateToken(cred)
        id == FindById(accounts, cred.token.userId)
    IN IF status # 200 THEN [status |-> status, error |-> AuthError(status), user |-> 0]
       ELSE IF id = 0 THEN [status |-> 404, error |-> ErrNotFound, user |-> 0]
       ELSE [status |-> 200, error |-> "", user |-> id]

\* The handler answers without having loaded an account.
Refuse(op, in, found) ==
    /\ out' = Resp(op, in, found.status, found.error, NoData)
    /\ UNCHANGED <<accounts, req>>

\* The handler has changed its loaded copy and awaits user.save().  Of the
\* loaded copy the save reads the version and the new updatedAt; the changed
\* collections are in delta, and data is the response the handler will send.
AwaitSave(r, op, in, id, loaded, delta, data) ==
    /\ req' = [req EXCEPT ![r] =
           [pc |-> "save", op |-> op, in |-> in, id |-> id,
            user |-> [v |-> loaded.v, updatedAt |-> loaded.updatedAt],
            delta |-> delta, data |-> data]]
    /\ out' = NoResp
    /\ UNCHANGED accounts

\* A save that sends the pushes in one update and the conditional assignment
\* in another: when the second fails the first has been written.
SaveUserInTwoWrites(r, op) ==
    /\ req[r].pc = "save" /\ req[r].op = op
    /\ LET id == req[r].id
           pushes == [req[r].delta EXCEPT !.setCart = FALSE, !.setQuantity = <<>>]
       IN IF SaveMatches(accounts[id], req[r].user, req[r].delta)
          THEN /\ accounts' = [accounts EXCEPT
                      ![id] = SaveApply(@, req[r].user, req[r].delta)]
               /\ out' = Resp(op, req[r].in, 200, "", req[r].data)
          ELSE /\ accounts' = [accounts EXCEPT
                      ![id] = SaveApply(@, req[r].user, pushes)]
               /\ out' = Resp(op, req[r].in, 500, ErrVersion, NoData)
    /\ req' = [req EXCEPT ![r] = Idle]
    /\ UNCHANGED <<issued, now, items, wishItems, running, ui>>

\* await user.save() returns or throws; the handler answers.
SaveUser(r, op) ==
    /\ req[r].pc = "save" /\ req[r].op = op
    /\ LET id == req[r].id
       IN IF SaveMatches(accounts[id], req[r].user, req[r].delta)
          THEN /\ accounts' = [accounts EXCEPT
                      ![id] = SaveApply(@, req[r].user, req[r].delta)]
               /\ out' = Resp(op, req[r].in, 200, "", req[r].data)
          ELSE /\ out' = Resp(op, req[r].in, 500, ErrVersion, NoData)
               /\ UNCHANGED accounts
    /\ req' = [req EXCEPT ![r] = Idle]
    /\ UNCHANGED <<issued, now, items, wishItems, running, ui>>

----------------------------------------------------------------------------
(* POST /api/users/cart *)

\* A handler that leaves user.updatedAt as it loaded it.
AddToCartKeepingUpdatedAt(r, cred, body) ==
    /\ req[r] = Idle
    /\ LET in == [cred |-> cred, body |-> body]
           found == Lookup(cred)
       IN IF found.status # 200 THEN Refuse("cart", in, found)
          ELSE LET user == accounts[found.user]
                   existingItem == Find(user.cart, body.productId)
                   quantity == IF existingItem # 0
                               THEN user.cart[existingItem].quantity
                                    + QuantityOr1(body.quantity)
                               ELSE QuantityOr1(body.quantity)
                   cart == IF existingItem # 0
                           THEN [user.cart EXCEPT ![existingItem].quantity = quantity]
                           ELSE Append(user.cart,
                                       [productId |-> body.productId,
                                        price |-> body.price, quantity |-> quantity])
                   delta == IF existingItem # 0
                            THEN [NoChange EXCEPT
                                     !.setQuantity = <<existingItem, quantity>>]
                            ELSE [NoChange EXCEPT
                                     !.pushCart = <<cart[Len(cart)]>>]
               IN AwaitSave(r, "cart", in, found.user,
                            [user EXCEPT !.cart = cart], delta, cart)
    /\ UNCHANGED <<issued, now, items, wishItems, running, ui>>

AddToCart(r, cred, body) ==
    /\ req[r] = Idle
    /\ LET in == [cred |-> cred, body |-> body]
           found == Lookup(cred)
       IN IF found.status # 200 THEN Refuse("cart", in, found)
          ELSE LET user == accounts[found.user]
                   existingItem == Find(user.cart, body.productId)
                   quantity == IF existingItem # 0
                               THEN user.cart[existingItem].quantity
                                    + QuantityOr1(body.quantity)
                               ELSE QuantityOr1(body.quantity)
                   cart == IF existingItem # 0
                           THEN [user.cart EXCEPT ![existingItem].quantity = quantity]
                           ELSE Append(user.cart,
                                       [productId |-> body.productId,
                                        price |-> body.price, quantity |-> quantity])
                   delta == IF existingItem # 0
                            THEN [NoChange EXCEPT
                                     !.setQuantity = <<existingItem, quantity>>]
                            ELSE [NoChange EXCEPT
                                     !.pushCart = <<cart[Len(cart)]>>]
               IN AwaitSave(r, "cart", in, found.user,
                            [user EXCEPT !.cart = cart, !.updatedAt = now],
                            delta, cart)
    /\ UNCHANGED <<issued, now, items, wishItems, running, ui>>

CartSave(r) == SaveUser(r, "cart")

----------------------------------------------------------------------------
(* POST /api/users/wishlist *)

AddToWishlist(r, cred, body) ==
    /\ req[r] = Idle
    /\ LET in == [cred |-> cred, body |-> body]
           found == Lookup(cred)
       IN IF found.status # 200 THEN Refuse("wishlist", in, found)
          ELSE LET user == accounts[found.user]
                   existingItem == Find(user.wishlist, body.productId)
                   item == [productId |-> body.productId, productPrice |-> body.price]
               IN IF existingItem = 0
                  THEN AwaitSave(r, "wishlist", in, found.user,
                                 [user EXCEPT !.wishlist = Append(@, item),
                                              !.updatedAt = now],
                                 [NoChange EXCEPT !.pushWishlist = <<item>>],
                                 Append(user.wishlist, item))
                  ELSE /\ out' = Resp("wishlist", in, 200, "", user.wishlist)
                       /\ UNCHANGED <<accounts, req>>
    /\ UNCHANGED <<issued, now, items, wishItems, running, ui>>

WishlistSave(r) == SaveUser(r, "wishlist")

----------------------------------------------------------------------------
(* POST /api/users/orders *)

RECURSIVE TotalOfPrices(_)
\* A reduce that adds the prices and leaves out the quantities.
TotalOfPrices(cart) ==
    IF cart = <<>> THEN 0
    ELSE TotalOfPrices(SubSeq(cart, 1, Len(cart) - 1)) + cart[Len(cart)].price

RECURSIVE Total(_)
\* cart.reduce((sum, item) => sum + item.price * item.quantity, 0)
Total(cart) ==
    IF cart = <<>> THEN 0
    ELSE Total(SubSeq(cart, 1, Len(cart) - 1))
         + cart[Len(cart)].price * cart[Len(cart)].quantity

\* A map that records each line as one unit.
PurchaseItemsOfOne(cart, t) ==
    [i \in 1..Len(cart) |->
        [productId |-> cart[i].productId, price |-> cart[i].price,
         quantity |-> 1, purchaseDate |-> t]]

\* cart.map(item => ({ ...item, purchaseDate: new Date() }))
PurchaseItems(cart, t) ==
    [i \in 1..Len(cart) |->
        [productId |-> cart[i].productId, price |-> cart[i].price,
         quantity |-> cart[i].quantity, purchaseDate |-> t]]

\* 'ORDER_' + Date.now()
OrderId(t) == <<"ORDER_", t>>

\* The handler without its check of an empty cart.
PlaceOrderOfAnyCart(r, cred) ==
    /\ req[r] = Idle
    /\ LET in == [cred |-> cred, body |-> <<>>]
           found == Lookup(cred)
       IN IF found.status # 200 THEN Refuse("orders", in, found)
          ELSE LET user == accounts[found.user]
                   purchaseItems == PurchaseItems(user.cart, now)
               IN AwaitSave(r, "orders", in, found.user,
                            [user EXCEPT
                                !.purchaseHistory = @ \o purchaseItems,
                                !.cart = <<>>, !.updatedAt = now],
                            [NoChange EXCEPT !.pushHistory = purchaseItems,
                                             !.setCart = TRUE],
                            [orderId |-> OrderId(now), items |-> purchaseItems,
                             total |-> Total(user.cart)])
    /\ UNCHANGED <<issued, now, items, wishItems, running, ui>>

PlaceOrder(r, cred) ==
    /\ req[r] = Idle
    /\ LET in == [cred |-> cred, body |-> <<>>]
           found == Lookup(cred)
       IN IF found.status # 200 THEN Refuse("orders", in, found)
          ELSE LET user == accounts[found.user]
                   purchaseItems == PurchaseItems(user.cart, now)
               IN IF user.cart = <<>>
                  THEN /\ out' = Resp("orders", in, 400, ErrEmptyCart, NoData)
                       /\ UNCHANGED <<accounts, req>>
                  ELSE AwaitSave(r, "orders", in, found.user,
                                 [user EXCEPT
                                     !.purchaseHistory = @ \o purchaseItems,
                                     !.cart = <<>>, !.updatedAt = now],
                                 [NoChange EXCEPT !.pushHistory = purchaseItems,
                                                  !.setCart = TRUE],
                                 [orderId |-> OrderId(now), items |-> purchaseItems,
                                  total |-> Total(user.cart)])
    /\ UNCHANGED <<issued, now, items, wishItems, running, ui>>

OrderSave(r) == SaveUser(r, "orders")

----------------------------------------------------------------------------
(* GET /api/users/profile, cart, wishlist and orders: the account, or one of *)
(* its collections, as stored.                                               *)

Get(r, op, cred) ==
    /\ req[r] = Idle
    /\ LET in == [cred |-> cred, body |-> <<>>]
           found == Lookup(cred)
           user == accounts[found.user]
       IN IF found.status # 200 THEN Refuse(op, in, found)
          ELSE /\ out' = Resp(op, in, 200, "",
                       CASE op = "get-cart" -> user.cart
                         [] op = "get-wishlist" -> user.wishlist
                         [] op = "get-orders" -> user.purchaseHistory
                         [] OTHER -> [user EXCEPT !.password = <<>>])
               /\ UNCHANGED <<accounts, req>>
    /\ UNCHANGED <<issued, now, items, wishItems, running, ui>>

GetProfile(r, cred) == Get(r, "get-profile", cred)
GetCart(r, cred) == Get(r, "get-cart", cred)
GetWishlist(r, cred) == Get(r, "get-wishlist", cred)
GetOrders(r, cred) == Get(r, "get-orders", cred)

----------------------------------------------------------------------------
(* GET /api/products/search/:adminObjectId/:query.  The server only reads    *)
(* the adminelementscreens collection: it is the same in every state.  A     *)
(* document is a tenant's configuration; its dynamicFields.productCards are  *)
(* the tenant's catalog.  A card without a name or a description has <<>>.   *)

AdminElementScreens ==
    [id \in {<<"a", "a">>, <<"b", "b">>} |->
        IF id = <<"a", "a">>
        THEN << [id |-> "a1", productName |-> <<"R", "e", "d">>, description |-> <<>>],
                [id |-> "a2", productName |-> <<"d", "e">>,
                 description |-> <<"r", "E", "D">>],
                [id |-> "a3", productName |-> <<>>, description |-> <<"e", "r">>],
                [id |-> "a4", productName |-> <<"r", "e", "d", "d">>,
                 description |-> <<"R", "e", "d">>] >>
        ELSE << [id |-> "b1", productName |-> <<"r", "e", "d">>, description |-> <<>>],
                [id |-> "b2", productName |-> <<"D", "e">>, description |-> <<"e">>] >>]

\* AdminElementScreen.findById(adminObjectId): the productCards of the
\* document, or no document.
ScreenExists(adminObjectId) == ObjectId(adminObjectId) \in DOMAIN AdminElementScreens
ProductCards(adminObjectId) == AdminElementScreens[ObjectId(adminObjectId)]

\* A test that looks for the query at the start of the string only.
StartsWith(string, query) ==
    Len(query) <= Len(string) /\ SubSeq(string, 1, Len(query)) = query

\* String.prototype.includes
Includes(string, query) ==
    \E i \in 0..(Len(string) - Len(query)) : SubSeq(string, i + 1, i + Len(query)) = query

\* The predicate of products.filter.
FilterTest(p, query) ==
    \/ ~Falsy(p.productName) /\ Includes(ToLowerCase(p.productName), ToLowerCase(query))
    \/ ~Falsy(p.description) /\ Includes(ToLowerCase(p.description), ToLowerCase(query))

ErrNoConfig == "App configuration not found"

SearchProducts(r, adminObjectId, query) ==
    /\ req[r] = Idle
    /\ LET in == [adminObjectId |-> adminObjectId, query |-> query]
       IN IF ~IsValidObjectId(adminObjectId)
          THEN out' = Resp("search", in, 400, ErrInvalidAdmin, NoData)
          ELSE IF ~ScreenExists(adminObjectId)
          THEN out' = Resp("search", in, 404, ErrNoConfig, NoData)
          ELSE out' = Resp("search", in, 200, "",
                           SelectSeq(ProductCards(adminObjectId),
                                     LAMBDA p : FilterTest(p, query)))
    /\ UNCHANGED <<accounts, issued, now, req, items, wishItems, running, ui>>

----------------------------------------------------------------------------
(* The client's CartManager and WishlistManager (main.dart).  out records   *)
(* the call the last step made.                                              *)

Call(op, in) == Resp(op, in, 0, "", NoData)

\* _items.indexWhere((i) => i.id == id), counted from 1; 0 for -1.
IdsAt(list, id) == {i \in 1..Len(list) : list[i].id = id}
IndexWhere(list, id) ==
    IF IdsAt(list, id) = {} THEN 0
    ELSE CHOOSE i \in IdsAt(list, id) : \A j \in IdsAt(list, id) : i <= j

\* _items.removeWhere((item) => item.id == id)
RECURSIVE RemoveWhere(_, _)
RemoveWhere(list, id) ==
    IF list = <<>> THEN <<>>
    ELSE IF Head(list).id = id THEN RemoveWhere(Tail(list), id)
    ELSE <<Head(list)>> \o RemoveWhere(Tail(list), id)

\* An addItem that replaces the quantity of an item the cart has.
CartAddItemReplacing(item) ==
    /\ running = "client"
    /\ LET existingIndex == IndexWhere(items, item.id)
       IN IF existingIndex # 0
          THEN items' = [items EXCEPT ![existingIndex].quantity = item.quantity]
          ELSE items' = Append(items, item)
    /\ out' = Call("addItem", item)
    /\ UNCHANGED <<accounts, issued, now, req, wishItems, running, ui>>

\* CartManager.addItem
CartAddItem(item) ==
    /\ running = "client"
    /\ LET existingIndex == IndexWhere(items, item.id)
       IN IF existingIndex # 0
          THEN items' = [items EXCEPT ![existingIndex].quantity = @ + item.quantity]
          ELSE items' = Append(items, item)
    /\ out' = Call("addItem", item)
    /\ UNCHANGED <<accounts, issued, now, req, wishItems, running, ui>>

\* CartManager.removeItem
CartRemoveItem(id) ==
    /\ running = "client"
    /\ items' = RemoveWhere(items, id)
    /\ out' = Call("removeItem", id)
    /\ UNCHANGED <<accounts, issued, now, req, wishItems, running, ui>>

\* CartManager.updateQuantity: firstWhere throws a StateError when no item has
\* the id.
CartUpdateQuantity(id, quantity) ==
    /\ running = "client"
    /\ IF IndexWhere(items, id) = 0
       THEN /\ out' = Resp("updateQuantity", <<id, quantity>>, 0, "StateError", NoData)
            /\ UNCHANGED items
       ELSE /\ items' = [items EXCEPT ![IndexWhere(items, id)].quantity = quantity]
            /\ out' = Call("updateQuantity", <<id, quantity>>)
    /\ UNCHANGED <<accounts, issued, now, req, wishItems, running, ui>>

\* CartManager.clear
CartClear ==
    /\ running = "client"
    /\ items' = <<>>
    /\ out' = Call("clear", <<>>)
    /\ UNCHANGED <<accounts, issued, now, req, wishItems, running, ui>>

\* WishlistManager.addItem
WishlistAddItem(item) ==
    /\ running = "client"
    /\ IF IdsAt(wishItems, item.id) = {}
       THEN wishItems' = Append(wishItems, item)
       ELSE UNCHANGED wishItems
    /\ out' = Call("wishlist.addItem", item)
    /\ UNCHANGED <<accounts, issued, now, req, items, running, ui>>

\* WishlistManager.removeItem
WishlistRemoveItem(id) ==
    /\ running = "client"
    /\ wishItems' = RemoveWhere(wishItems, id)
    /\ out' = Call("wishlist.removeItem", id)
    /\ UNCHANGED <<accounts, issued, now, req, items, running, ui>>

\* WishlistManager.clear
WishlistClear ==
    /\ running = "client"
    /\ wishItems' = <<>>
    /\ out' = Call("wishlist.clear", <<>>)
    /\ UNCHANGED <<accounts, issued, now, req, items, running, ui>>

----------------------------------------------------------------------------
(* The buttons of the cart page and of the wishlist page (main.dart).  The   *)
(* pages build one row per item of the manager's list; index is the row.    *)
(* None of the callbacks sends a request: the only requests of main.dart    *)
(* fetch the products and the configuration and post the sign-in and        *)
(* registration forms.                                                       *)

\* A remove button that compares the quantity with 0.
OnPressedRemoveToZero(index) ==
    /\ index \in 1..Len(items)
    /\ LET item == items[index]
       IN IF item.quantity > 0
          THEN CartUpdateQuantity(item.id, item.quantity - 1)
          ELSE CartRemoveItem(item.id)

\* Cart page, Icons.remove
OnPressedRemove(index) ==
    /\ index \in 1..Len(items)
    /\ LET item == items[index]
       IN IF item.quantity > 1
          THEN CartUpdateQuantity(item.id, item.quantity - 1)
          ELSE CartRemoveItem(item.id)

\* Cart page, Icons.add
OnPressedAdd(index) ==
    /\ index \in 1..Len(items)
    /\ LET item == items[index]
       IN CartUpdateQuantity(item.id, item.quantity + 1)

\* Wishlist page, Icons.shopping_cart: a CartItem of the wishlist item, with
\* the quantity the constructor gives it (1).
OnPressedShoppingCart(index) ==
    /\ index \in 1..Len(wishItems)
    /\ LET item == wishItems[index]
           cartItem == [id |-> item.id, price |-> item.price,
                        discountPrice |-> item.discountPrice, quantity |-> 1]
       IN CartAddItem(cartItem)

\* Wishlist page, Icons.delete
OnPressedDelete(index) ==
    /\ index \in 1..Len(wishItems)
    /\ WishlistRemoveItem(wishItems[index].id)

----------------------------------------------------------------------------
(* The sign-in and create-account pages (main.dart).  ui.pages is the       *)
(* navigator's stack of routes, the last one on top; ui.signInLoading and   *)
(* ui.createLoading are the _isLoading fields of the two page states;       *)
(* ui.logins and ui.registers are the http.post calls whose await has not   *)
(* returned.  A register call remembers whether the page state that made it *)
(* is still mounted.  The response a call awaits is the server's out.       *)

SignInUI ==
    [pages |-> <<"SignInPage">>, signInLoading |-> FALSE, createLoading |-> FALSE,
     logins |-> <<>>, registers |-> <<>>]
HomeUI == [SignInUI EXCEPT !.pages = <<"HomePage">>]

Top(pages) == pages[Len(pages)]
Mounted(page) == \E i \in 1..Len(ui.pages) : ui.pages[i] = page

\* Navigator.pushReplacement and Navigator.pop
PushReplacement(pages, page) == [pages EXCEPT ![Len(pages)] = page]
Pop(pages) == SubSeq(pages, 1, Len(pages) - 1)

RECURSIVE Trim(_)
\* String.trim
Trim(s) ==
    IF s = <<>> THEN s
    ELSE IF Head(s) = " " THEN Trim(Tail(s))
    ELSE IF s[Len(s)] = " " THEN Trim(SubSeq(s, 1, Len(s) - 1))
    ELSE s

\* widget.adminObjectId, which the splash screen passes on
WidgetAdminObjectId == <<"a", "a">>

\* _SignInPageState._signIn up to its await
SignIn(email, password) ==
    /\ IF email = <<>> \/ password = <<>>
       THEN /\ out' = Call("showSnackBar", "Please fill all fields")
            /\ UNCHANGED ui
       ELSE /\ ui' = [ui EXCEPT
                         !.signInLoading = TRUE,
                         !.logins = Append(@, [email |-> Trim(email),
                                               password |-> password,
                                               adminObjectId |-> WidgetAdminObjectId])]
            /\ out' = Call("http.post", "/api/users/login")
    /\ UNCHANGED <<accounts, issued, now, req, items, wishItems, running>>

\* Sign-in page, ElevatedButton onPressed: _isLoading ? null : _signIn
PressSignIn(email, password) ==
    /\ running = "client"
    /\ Top(ui.pages) = "SignInPage"
    /\ ~ui.signInLoading
    /\ SignIn(email, password)

\* _signIn after its await returned the response out.
SignInResponse ==
    /\ running = "client"
    /\ out.op = "login" /\ ui.logins # <<>>
    /\ IF out.status = 200 /\ Json(out).success = TRUE
       THEN IF Mounted("SignInPage")
            THEN /\ ui' = [ui EXCEPT !.signInLoading = FALSE,
                                     !.pages = PushReplacement(@, "HomePage"),
                                     !.logins = Tail(@),
                                     \* the state of a route that is replaced is disposed of
                                     !.registers =
                                         IF Top(ui.pages) = "CreateAccountPage"
                                         THEN [i \in 1..Len(@) |->
                                                  [@[i] EXCEPT !.mounted = FALSE]]
                                         ELSE @]
                 /\ out' = Call("Navigator.pushReplacement", "HomePage")
            ELSE /\ ui' = [ui EXCEPT !.logins = Tail(@)]
                 /\ out' = NoResp
       ELSE /\ ui' = [ui EXCEPT !.signInLoading = IF Mounted("SignInPage") THEN FALSE ELSE @,
                                !.logins = Tail(@)]
            /\ out' = Call("showSnackBar", "Sign in failed")
    /\ UNCHANGED <<accounts, issued, now, req, items, wishItems, running>>

\* _signIn after its await threw: the request did not reach the server.
SignInNetworkError ==
    /\ running = "client"
    /\ ui.logins # <<>>
    /\ ui' = [ui EXCEPT !.signInLoading = IF Mounted("SignInPage") THEN FALSE ELSE @,
                        !.logins = Tail(@)]
    /\ out' = Call("showSnackBar", "Sign in failed")
    /\ UNCHANGED <<accounts, issued, now, req, items, wishItems, running>>

\* Sign-in page, TextButton 'Create Your Account'
PressCreateYourAccount ==
    /\ running = "client"
    /\ Top(ui.pages) = "SignInPage"
    /\ ui' = [ui EXCEPT !.pages = Append(@, "CreateAccountPage"),
                        !.createLoading = FALSE]
    /\ out' = Call("Navigator.push", "CreateAccountPage")
    /\ UNCHANGED <<accounts, issued, now, req, items, wishItems, running>>

\* _validateEmail.  Its pattern, '^[w-.]+@([w-]+.)+[w-]{2,4}$', has the class
\* range w-. whose bounds are out of order: RegExp rejects such a pattern with
\* a FormatException, which _createAccount does not catch, and then no
\* registration is sent at all.  The outcomes of a pattern that is accepted are
\* admitted as well, so that the code after the validation is covered.
ValidateEmail(email) == {"FormatException", "true", "false"}

\* _validatePhone: '^[0-9]{10}$'
ValidatePhone(phone) ==
    /\ Len(phone) = 10
    /\ \A i \in 1..Len(phone) :
          phone[i] \in {"0", "1", "2", "3", "4", "5", "6", "7", "8", "9"}

\* _validatePassword
ValidatePassword(password) == Len(password) >= 6

\* _CreateAccountPageState._createAccount up to its await
CreateAccount(form) ==
    /\ LET firstName == Trim(form.firstName)
           lastName == Trim(form.lastName)
           email == Trim(form.email)
           phone == Trim(form.phone)
           password == form.password
       IN IF \/ firstName = <<>> \/ lastName = <<>> \/ email = <<>>
             \/ phone = <<>> \/ password = <<>>
          THEN /\ out' = Call("showSnackBar", "Please fill all fields")
               /\ UNCHANGED ui
          ELSE \E valid \in ValidateEmail(email) :
               IF valid = "FormatException"
               THEN /\ out' = Call("throw", "FormatException")
                    /\ UNCHANGED ui
               ELSE IF valid = "false"
               THEN /\ out' = Call("showSnackBar", "Please enter a valid email")
                    /\ UNCHANGED ui
               ELSE IF ~ValidatePhone(phone)
               THEN /\ out' = Call("showSnackBar",
                                   "Please enter a valid 10-digit phone number")
                    /\ UNCHANGED ui
               ELSE IF ~ValidatePassword(password)
               THEN /\ out' = Call("showSnackBar",
                                   "Password must be at least 6 characters")
                    /\ UNCHANGED ui
               ELSE /\ ui' = [ui EXCEPT
                                 !.createLoading = TRUE,
                                 !.registers = Append(@,
                                     [body |-> [firstName |-> firstName,
                                                lastName |-> lastName,
                                                email |-> email, phone |-> phone,
                                                password |-> password,
                                                adminObjectId |-> WidgetAdminObjectId],
                                      mounted |-> TRUE])]
                    /\ out' = Call("http.post", "/api/users/register")
    /\ UNCHANGED <<accounts, issued, now, req, items, wishItems, running>>

\* Create-account page, ElevatedButton onPressed: _isLoading ? null : _createAccount
PressCreateAccount(form) ==
    /\ running = "client"
    /\ Top(ui.pages) = "CreateAccountPage"
    /\ ~ui.createLoading
    /\ CreateAccount(form)

\* _createAccount after its await returned the response out.
CreateAccountResponse ==
    /\ running = "client"
    /\ out.op = "register" /\ ui.registers # <<>>
    /\ LET mounted == Head(ui.registers).mounted
       IN IF out.status = 200 /\ Json(out).success = TRUE
          THEN IF mounted
               THEN /\ ui' = [ui EXCEPT !.createLoading = FALSE,
                                        !.pages = Pop(@),
                                        !.registers = Tail(@)]
                    /\ out' = Call("Navigator.pop", "CreateAccountPage")
               ELSE /\ ui' = [ui EXCEPT !.registers = Tail(@)]
                    /\ out' = NoResp
          ELSE /\ ui' = [ui EXCEPT !.createLoading = IF mounted THEN FALSE ELSE @,
                                   !.registers = Tail(@)]
               /\ out' = Call("showSnackBar", "Failed")
    /\ UNCHANGED <<accounts, issued, now, req, items, wishItems, running>>

\* _createAccount after its await threw: the request did not reach the server.
CreateAccountNetworkError ==
    /\ running = "client"
    /\ ui.registers # <<>>
    /\ ui' = [ui EXCEPT !.createLoading = IF Head(ui.registers).mounted THEN FALSE ELSE @,
                        !.registers = Tail(@)]
    /\ out' = Call("showSnackBar", "Failed")
    /\ UNCHANGED <<accounts, issued, now, req, items, wishItems, running>>

----------------------------------------------------------------------------
(* Prices in the client (main.dart: PriceUtils, CartItem, CartManager).  A   *)
(* Dart double is written as a whole number of hundredths: 5.99 is 599 and   *)
(* 100.0 is 10000.  The product of two doubles and their quotient are taken  *)
(* in hundredths; the prices of the model are whole amounts, for which the   *)
(* percentages below are exact.  The rounding of binary floating point is    *)
(* not modelled.                                                             *)

Fixed(units) == units * 100
Times(a, b) == (a * b) \div 100
Over(a, b) == (a * 100) \div b

\* PriceUtils.calculateTax: subtotal * (taxRate / 100)
CalculateTax(subtotal, taxRate) == Times(subtotal, Over(taxRate, Fixed(100)))

\* A comparison that charges the fee at the threshold itself.
ApplyShippingAbove(total, shippingFee, freeShippingThreshold) ==
    IF total > freeShippingThreshold THEN total ELSE total + shippingFee

\* PriceUtils.applyShipping
ApplyShipping(total, shippingFee, freeShippingThreshold) ==
    IF total >= freeShippingThreshold THEN total ELSE total + shippingFee

\* The default of applyShipping's freeShippingThreshold: 100.0
FreeShippingThreshold == 10000

\* A getter that takes the discount price whenever it is not negative.
EffectivePriceFromZero(item) ==
    IF item.discountPrice >= 0 THEN item.discountPrice ELSE item.price

\* CartItem.effectivePrice and CartItem.totalPrice
EffectivePrice(item) == IF item.discountPrice > 0 THEN item.discountPrice ELSE item.price
TotalPrice(item) == EffectivePrice(item) * item.quantity

\* _items.fold(0.0, (sum, item) => sum + item.totalPrice)
RECURSIVE Fold(_, _)
Fold(list, sum) ==
    IF list = <<>> THEN sum ELSE Fold(Tail(list), sum + TotalPrice(Head(list)))

\* CartManager.subtotal
Subtotal(list) == Fold(list, 0)

\* The rates and the fee the getters pass: 8.0, 18.0 and 5.99.
TaxRate == 800
GstRate == 1800
ShippingFee == 599

\* CartManager.totalWithTax
TotalWithTax(list) == Subtotal(list) + CalculateTax(Subtotal(list), TaxRate)

\* CartManager.totalDiscount
RECURSIVE FoldDiscount(_, _)
FoldDiscount(list, sum) ==
    IF list = <<>> THEN sum
    ELSE FoldDiscount(Tail(list),
             sum + (Head(list).price - EffectivePrice(Head(list))) * Head(list).quantity)
TotalDiscount(list) == FoldDiscount(list, 0)

\* A GST computed at the rate of the general tax.
GstAmountAtTaxRate(list) == CalculateTax(Subtotal(list), TaxRate)

\* CartManager.gstAmount
GstAmount(list) == CalculateTax(Subtotal(list), GstRate)

\* CartManager.finalTotal
FinalTotal(list) == Subtotal(list) + GstAmount(list)

\* CartManager.finalTotalWithShipping
FinalTotalWithShipping(list) ==
    ApplyShipping(TotalWithTax(list), ShippingFee, FreeShippingThreshold)

\* The cart page is built: it reads the getters of the CartManager.
CartTotals ==
    /\ running = "client"
    /\ out' = Resp("totals", items, 0, "",
                   [subtotal |-> Subtotal(items),
                    totalWithTax |-> TotalWithTax(items),
                    totalDiscount |-> TotalDiscount(items),
                    gstAmount |-> GstAmount(items),
                    finalTotal |-> FinalTotal(items),
                    finalTotalWithShipping |-> FinalTotalWithShipping(items)])
    /\ UNCHANGED <<accounts, issued, now, req, items, wishItems, running, ui>>

\* PriceUtils.applyShipping called with a total, a fee and a threshold.
Shipping(total, shippingFee, freeShippingThreshold) ==
    /\ running = "client"
    /\ out' = Resp("applyShipping",
                   [total |-> total, shippingFee |-> shippingFee,
                    freeShippingThreshold |-> freeShippingThreshold],
                   0, "", ApplyShipping(total, shippingFee, freeShippingThreshold))
    /\ UNCHANGED <<accounts, issued, now, req, items, wishItems, running, ui>>

----------------------------------------------------------------------------
(* Inputs. *)

Conns == {"c1", "c2"}

TenantA == <<"a", "a">>
TenantB == <<"b", "b">>
EmailA == <<"a", "@", "x">>

AccountBodies(tenants, emails, passwords) ==
    [adminObjectId : tenants, firstName : {<<"F">>}, lastName : {<<"L">>},
     fullName : {<<>>}, email : emails, password : passwords, phone : {<<"9">>}]

\* Bodies of well-formed account requests: two tenants, one email in two
\* casings, two passwords; and the first tenant written in upper case.
AuthBodies ==
    AccountBodies({TenantA, TenantB}, {EmailA, <<"A", "@", "X">>}, {<<"p">>, <<"q">>})
    \cup AccountBodies({<<"A", "A">>}, {EmailA}, {<<"p">>})

PriceOf(productId) == IF productId = "p1" THEN 10 ELSE 5

\* Bodies of cart and wishlist requests: a product with its catalog price and a
\* quantity, <<>> when the body has none.
ItemBodies(products, quantities) ==
    {[productId |-> p, price |-> PriceOf(p), quantity |-> q] :
        p \in products, q \in quantities}

\* The items the client adds: a product with its price, with or without a
\* discount price, and a quantity.
ClientItems(products, quantities) ==
    {[id |-> p, price |-> PriceOf(p), discountPrice |-> d, quantity |-> q] :
        p \in products, d \in {0, 4}, q \in quantities}

\* The items whose prices the client adds up: 10.00 with or without a discount
\* price of 4.00, 5.00 and 50.00.
PricedItems(quantities) ==
    {[id |-> "p1", price |-> Fixed(10), discountPrice |-> d, quantity |-> q] :
        d \in {0, Fixed(4)}, q \in quantities}
    \cup {[id |-> "p2", price |-> Fixed(5), discountPrice |-> 0, quantity |-> q] :
        q \in quantities}
    \cup {[id |-> "p3", price |-> Fixed(50), discountPrice |-> 0, quantity |-> q] :
        q \in quantities}

\* Totals around a threshold, for a call of applyShipping.
ShippingCalls ==
    {[total |-> threshold + d, shippingFee |-> ShippingFee,
      freeShippingThreshold |-> threshold] :
        threshold \in {FreeShippingThreshold, Fixed(50)}, d \in {0 - 1, 0, 1}}

\* The queries of a search: the strings of one and two letters of "red" in
\* either case, the word in three casings, a longer word and a foreign letter.
Letters == {"r", "e", "d", "R", "E", "D"}
Queries ==
    {<<a>> : a \in Letters} \cup {<<a, b>> : a \in Letters, b \in Letters}
    \cup {<<"r", "e", "d">>, <<"R", "E", "D">>, <<"R", "e", "d">>,
           <<"r", "e", "d", "d">>, <<"x">>}

\* The tenants of a search: the two with a catalog, the first written in upper
\* case, one without a configuration and a string that is no ObjectId.
SearchTenants == {TenantA, TenantB, <<"A", "A">>, <<"c", "c">>, <<"z", "z">>}

\* What a client can present: nothing, a forged token, or a token it was issued,
\* before or after its expiry.
Credentials ==
    {[token |-> NoToken, expired |-> FALSE]}
    \cup {[token |-> t, expired |-> e] : t \in issued \cup {ForgedToken}, e \in BOOLEAN}

\* The credentials of signed-in clients: an issued token that has not expired.
SignedIn == {[token |-> t, expired |-> FALSE] : t \in issued}

\* The account registered by { adminObjectId: 'aa', email: 'a@x', password: 'p' }.
AccountA ==
    NewAccount(TenantA, <<"F">>, <<"L">>, EmailA, BcryptHash(<<"p">>, "s1"), <<"9">>, 0)

----------------------------------------------------------------------------
(* Specifications. *)

\* The server after start-up, with an empty collection.
Init ==
    /\ accounts = <<>>
    /\ issued = {}
    /\ now = 0
    /\ req = [r \in Conns |-> Idle]
    /\ out = NoResp
    /\ items = <<>>
    /\ wishItems = <<>>
    /\ running = "server"
    /\ ui = SignInUI

\* The server after one registration.
InitShop ==
    /\ accounts = <<AccountA>>
    /\ issued = {JwtSign(1, EmailA, TenantA)}
    /\ now = 0
    /\ req = [r \in Conns |-> Idle]
    /\ out = NoResp
    /\ items = <<>>
    /\ wishItems = <<>>
    /\ running = "server"
    /\ ui = SignInUI

\* The server after one registration, or the client after it opened its home
\* page.  The client never sends a cart or wishlist request, so the two
\* programs share no state; a behaviour exercises one of them.
InitShopOrClient ==
    /\ accounts = <<AccountA>>
    /\ issued = {JwtSign(1, EmailA, TenantA)}
    /\ now = 0
    /\ req = [r \in Conns |-> Idle]
    /\ out = NoResp
    /\ items = <<>>
    /\ wishItems = <<>>
    /\ running \in {"server", "client"}
    /\ ui = HomeUI

\* The quantity of the cart line an AddToCart request would write.
QuantityAfter(cred, body) ==
    LET found == Lookup(cred)
        cart == accounts[found.user].cart
    IN IF found.status # 200 THEN 0
       ELSE IF Find(cart, body.productId) = 0 THEN QuantityOr1(body.quantity)
       ELSE cart[Find(cart, body.productId)].quantity + QuantityOr1(body.quantity)

\* The length of the purchase history a PlaceOrder request would write.
HistoryAfter(cred) ==
    LET found == Lookup(cred)
    IN IF found.status # 200 THEN 0
       ELSE Len(accounts[found.user].purchaseHistory) + Len(accounts[found.user].cart)

\* The quantity of the line a client addItem would write.
ClientQuantityAfter(item) ==
    IF IndexWhere(items, item.id) = 0 THEN item.quantity
    ELSE items[IndexWhere(items, item.id)].quantity + item.quantity

RegisterOps(conns, bodies) ==
    \/ \E r \in conns, body \in bodies : Register(r, body)
    \/ \E r \in conns : RegisterSave(r)

CreateUserOps(conns, bodies) ==
    \/ \E r \in conns, body \in bodies : CreateUser(r, body)
    \/ \E r \in conns : CreateUserSave(r)

LoginOps(conns, bodies) == \E r \in conns, body \in bodies : Login(r, body)

CartOps(conns, creds, bodies, maxQuantity) ==
    \/ \E r \in conns, cred \in creds, body \in bodies :
          QuantityAfter(cred, body) <= maxQuantity /\ AddToCart(r, cred, body)
    \/ \E r \in conns : CartSave(r)

WishlistOps(conns, creds, bodies) ==
    \/ \E r \in conns, cred \in creds, body \in bodies : AddToWishlist(r, cred, body)
    \/ \E r \in conns : WishlistSave(r)

OrderOps(conns, creds, maxHistory) ==
    \/ \E r \in conns, cred \in creds :
          HistoryAfter(cred) <= maxHistory /\ PlaceOrder(r, cred)
    \/ \E r \in conns : OrderSave(r)

ReadOps(conns, creds) ==
    \/ \E r \in conns, cred \in creds : GetProfile(r, cred)
    \/ \E r \in conns, cred \in creds : GetCart(r, cred)
    \/ \E r \in conns, cred \in creds : GetWishlist(r, cred)
    \/ \E r \in conns, cred \in creds : GetOrders(r, cred)

Clock == now < MaxTime /\ Tick

ClientCartOps(cartItems) ==
    \/ \E item \in cartItems :
          ClientQuantityAfter(item) <= MaxQuantity /\ CartAddItem(item)
    \/ \E item \in cartItems : CartRemoveItem(item.id)
    \/ \E item \in cartItems : CartUpdateQuantity(item.id, item.quantity)
    \/ CartClear

ClientWishlistOps(wishlistItems) ==
    \/ \E item \in wishlistItems : WishlistAddItem(item)
    \/ \E item \in wishlistItems : WishlistRemoveItem(item.id)
    \/ WishlistClear

\* Concurrent registrations and logins.
NextAuth ==
    \/ RegisterOps(Conns, AuthBodies)
    \/ CreateUserOps(Conns, AuthBodies)
    \/ LoginOps(Conns, AuthBodies)
SpecAuth == Init /\ [][NextAuth]_vars

\* Concurrent registrations.
NextRegister == RegisterOps(Conns, AuthBodies)
SpecRegister == Init /\ [][NextRegister]_vars

\* Concurrent additions to the cart of one account; the client's cart.
NextCart ==
    \/ /\ running = "server"
       /\ \/ CartOps(Conns, SignedIn, ItemBodies({"p1"}, {<<>>, <<0>>, <<1>>, <<2>>}),
                     MaxQuantity)
          \/ Clock
    \/ ClientCartOps(ClientItems({"p1", "p2"}, {0, 1, 2}))
SpecCart == InitShopOrClient /\ [][NextCart]_vars

\* Concurrent additions to the wishlist of one account; the client's wishlist.
NextWishlist ==
    \/ /\ running = "server"
       /\ \/ WishlistOps(Conns, SignedIn, ItemBodies({"p1", "p2"}, {<<>>}))
          \/ Clock
    \/ ClientWishlistOps(ClientItems({"p1", "p2"}, {1}))
SpecWishlist == InitShopOrClient /\ [][NextWishlist]_vars

\* Concurrent additions to the cart and the wishlist and orders of one account;
\* the client's cart and wishlist.
NextShop ==
    \/ /\ running = "server"
       /\ \/ CartOps(Conns, SignedIn, ItemBodies({"p1"}, {<<>>}), MaxQuantity)
          \/ WishlistOps(Conns, SignedIn, ItemBodies({"p1"}, {<<>>}))
          \/ OrderOps(Conns, SignedIn, MaxHistory)
          \/ Clock
    \/ ClientCartOps(ClientItems({"p1", "p2"}, {1}))
    \/ ClientWishlistOps(ClientItems({"p1", "p2"}, {1}))
SpecShop == InitShopOrClient /\ [][NextShop]_vars

\* One signed-in client whose requests follow one another: additions to the
\* cart with an absent, a zero and a positive quantity, and orders; the client's
\* cart.
NextSession ==
    \/ /\ running = "server"
       /\ \/ CartOps({"c1"}, SignedIn,
                     ItemBodies({"p1", "p2"}, {<<>>, <<0>>, <<1>>, <<2>>}), MaxQuantity)
          \/ OrderOps({"c1"}, SignedIn, MaxHistory)
          \/ Clock
    \/ ClientCartOps(ClientItems({"p1", "p2"}, {0, 1, 2}))
SpecSession == InitShopOrClient /\ [][NextSession]_vars

\* Concurrent additions to the cart and the wishlist and orders of one account,
\* while the clock advances.
NextOrders ==
    \/ CartOps(Conns, SignedIn, ItemBodies({"p1"}, {<<>>}), MaxQuantityEach)
    \/ WishlistOps(Conns, SignedIn, ItemBodies({"p1"}, {<<>>}))
    \/ OrderOps(Conns, SignedIn, MaxHistory)
    \/ Clock
SpecOrders == InitShop /\ [][NextOrders]_vars

\* One signed-in client that fills its cart with two products and orders, one
\* request after the other.
NextCheckout ==
    \/ CartOps({"c1"}, SignedIn, ItemBodies({"p1", "p2"}, {<<>>, <<2>>}), MaxQuantity)
    \/ WishlistOps({"c1"}, SignedIn, ItemBodies({"p1"}, {<<>>}))
    \/ OrderOps({"c1"}, SignedIn, MaxHistory)
SpecCheckout == InitShop /\ [][NextCheckout]_vars

\* Searches of the catalogs.
NextSearch ==
    \E tenant \in SearchTenants, query \in Queries : SearchProducts("c1", tenant, query)
SpecSearch == Init /\ [][NextSearch]_vars

\* The client after it opened its home page.
InitClient ==
    /\ accounts = <<>>
    /\ issued = {}
    /\ now = 0
    /\ req = [r \in Conns |-> Idle]
    /\ out = NoResp
    /\ items = <<>>
    /\ wishItems = <<>>
    /\ running = "client"
    /\ ui = HomeUI

\* The client of a signed-in account.
InitSignedIn ==
    /\ accounts = <<AccountA>>
    /\ issued = {JwtSign(1, EmailA, TenantA)}
    /\ now = 0
    /\ req = [r \in Conns |-> Idle]
    /\ out = NoResp
    /\ items = <<>>
    /\ wishItems = <<>>
    /\ running = "client"
    /\ ui = HomeUI

\* The buttons of the client's cart and wishlist pages.  No widget calls
\* WishlistManager.addItem; the manager's method fills the wishlist here.
NextUI ==
    \/ \E item \in ClientItems({"p1", "p2"}, {1}) : WishlistAddItem(item)
    \/ \E index \in 1..Len(wishItems) :
          /\ ClientQuantityAfter([id |-> wishItems[index].id, quantity |-> 1]) <= MaxQuantity
          /\ OnPressedShoppingCart(index)
    \/ \E index \in 1..Len(wishItems) : OnPressedDelete(index)
    \/ \E index \in 1..Len(items) : OnPressedRemove(index)
    \/ \E index \in 1..Len(items) :
          items[index].quantity < MaxQuantity /\ OnPressedAdd(index)
SpecUI == InitSignedIn /\ [][NextUI]_vars

\* The client's cart and the amounts it shows for it.
NextPrices ==
    \/ ClientCartOps(PricedItems({0, 1, 2}))
    \/ CartTotals
    \/ \E call \in ShippingCalls :
          Shipping(call.total, call.shippingFee, call.freeShippingThreshold)
SpecPrices == InitClient /\ [][NextPrices]_vars

\* The protected routes of one account, one request at a time, called with
\* every kind of credential.
NextGuard ==
    \/ CartOps({"c1"}, Credentials, ItemBodies({"p1"}, {<<>>}), MaxQuantityEach)
    \/ WishlistOps({"c1"}, Credentials, ItemBodies({"p1"}, {<<>>}))
    \/ OrderOps({"c1"}, Credentials, MaxHistoryEach)
    \/ ReadOps({"c1"}, Credentials)
SpecGuard == InitShop /\ [][NextGuard]_vars

\* The whole server from start-up, one request at a time: the same email
\* registers under two tenants, with different passwords; logins; and the
\* protected routes.
TenantBodies ==
    AccountBodies({TenantA, <<"A", "A">>}, {EmailA}, {<<"p">>})
    \cup AccountBodies({TenantB}, {EmailA}, {<<"q">>})
NextServer ==
    \/ RegisterOps({"c1"}, TenantBodies)
    \/ CreateUserOps({"c1"}, TenantBodies)
    \/ LoginOps({"c1"}, AccountBodies({TenantA, <<"A", "A">>, TenantB}, {EmailA},
                                       {<<"p">>, <<"q">>}))
    \/ CartOps({"c1"}, SignedIn, ItemBodies({"p1"}, {<<>>}), MaxQuantityEach)
    \/ WishlistOps({"c1"}, SignedIn, ItemBodies({"p1"}, {<<>>}))
    \/ OrderOps({"c1"}, SignedIn, MaxHistoryEach)
    \/ ReadOps({"c1"}, SignedIn)
Spec == Init /\ [][NextServer]_vars

\* Registrations, one at a time, of complete bodies and of bodies from which
\* one required field is missing, for two tenants and a string that is no
\* ObjectId.
RequiredFields == {"adminObjectId", "firstName", "lastName", "email", "password", "phone"}
Without(body, field) == [body EXCEPT ![field] = <<>>]
ValidationBodies ==
    LET complete == AccountBodies({TenantA, TenantB, <<"z", "z">>},
                                  {EmailA, <<"A", "@", "X">>}, {<<"p">>})
    IN complete \cup {Without(body, field) : body \in complete, field \in RequiredFields}
NextValidation == RegisterOps({"c1"}, ValidationBodies)
SpecValidation == Init /\ [][NextValidation]_vars

\* Requests that fail, two at a time: registrations of an existing account,
\* of a new one, with an invalid tenant and without a phone; logins with the
\* right and a wrong password; cart, wishlist and order requests without a
\* token, with a forged, an expired and a valid one.
FailureBodies ==
    AccountBodies({TenantA, TenantB, <<"z", "z">>}, {EmailA}, {<<"p">>})
    \cup {[body EXCEPT !.phone = <<>>] :
             body \in AccountBodies({TenantB}, {EmailA}, {<<"p">>})}
FailureCredentials ==
    {[token |-> NoToken, expired |-> FALSE], [token |-> ForgedToken, expired |-> FALSE]}
    \cup {[token |-> JwtSign(1, EmailA, TenantA), expired |-> e] : e \in BOOLEAN}
NextFailures ==
    \/ RegisterOps(Conns, FailureBodies)
    \/ LoginOps({"c1"}, AccountBodies({TenantA}, {EmailA}, {<<"p">>, <<"q">>}))
    \/ CartOps(Conns, FailureCredentials, ItemBodies({"p1"}, {<<>>}), MaxQuantityEach)
    \/ WishlistOps(Conns, FailureCredentials, ItemBodies({"p1"}, {<<>>}))
    \/ OrderOps(Conns, FailureCredentials, MaxHistoryEach)
SpecFailures == InitShop /\ [][NextFailures]_vars

\* The server after the same email registered under both tenants.
AccountB ==
    NewAccount(TenantB, <<"F">>, <<"L">>, EmailA, BcryptHash(<<"q">>, "s1"), <<"9">>, 0)
InitTwoAccounts ==
    /\ accounts = <<AccountA, AccountB>>
    /\ issued = {JwtSign(1, EmailA, TenantA), JwtSign(2, EmailA, TenantB)}
    /\ now = 0
    /\ req = [r \in Conns |-> Idle]
    /\ out = NoResp
    /\ items = <<>>
    /\ wishItems = <<>>
    /\ running = "server"
    /\ ui = SignInUI

\* Two signed-in clients of two accounts fill their carts and place orders,
\* two requests at a time.
NextTwoAccounts ==
    \/ CartOps(Conns, SignedIn, ItemBodies({"p1"}, {<<>>}), MaxQuantityEach)
    \/ OrderOps(Conns, SignedIn, MaxHistoryEach)
    \/ Clock
SpecTwoAccounts == InitTwoAccounts /\ [][NextTwoAccounts]_vars

\* The same additions made to the client's cart and, one request at a time, to
\* the server's cart of the signed-in account: each item the client adds,
\* which has no discount price and a quantity of 1 or 2, is then sent to
\* POST /api/users/cart with the same product, price and quantity; after an
\* answered addition an order can be placed, which ends the comparison.
AddedItems == {item \in ClientItems({"p1", "p2"}, {1, 2}) : item.discountPrice = 0}
NextMirror ==
    \/ \E item \in AddedItems :
          /\ req["c1"] = Idle
          /\ out.op = "none" \/ (out.op = "cart" /\ out.status = 200)
          /\ ClientQuantityAfter(item) <= MaxQuantity
          /\ CartAddItem(item)
    \/ \E cred \in SignedIn :
          /\ out.op = "addItem"
          /\ AddToCart("c1", cred, [productId |-> out.in.id, price |-> out.in.price,
                                    quantity |-> <<out.in.quantity>>])
    \/ CartSave("c1")
    \/ \E cred \in SignedIn :
          /\ out.op = "cart" /\ out.status = 200
          /\ HistoryAfter(cred) <= MaxHistory
          /\ PlaceOrder("c1", cred)
    \/ OrderSave("c1")
SpecMirror == InitSignedIn /\ [][NextMirror]_vars

\* The client from its sign-in page and the server it talks to: the login
\* requests travel on c1, the registrations on c2.  The server answers the
\* oldest request in flight and the client's await takes the answer at once.
InitSignIn ==
    /\ accounts = <<AccountA>>
    /\ issued = {}
    /\ now = 0
    /\ req = [r \in Conns |-> Idle]
    /\ out = NoResp
    /\ items = <<>>
    /\ wishItems = <<>>
    /\ running = "client"
    /\ ui = SignInUI
Answered ==
    \/ out.op = "login" /\ ui.logins # <<>>
    \/ out.op = "register" /\ ui.registers # <<>>
NextSignIn ==
    \/ /\ ~Answered
       /\ \E email \in {<<>>, EmailA, <<"a", "@", "x", " ">>, <<"b", "@", "x">>},
             password \in {<<>>, <<"p">>, <<"q">>, <<"p", "p", "p", "p", "p", "p">>} :
             PressSignIn(email, password)
    \/ /\ ~Answered /\ ui.logins # <<>>
       /\ Login("c1", Head(ui.logins))
    \/ SignInResponse
    \/ ~Answered /\ SignInNetworkError
    \/ ~Answered /\ PressCreateYourAccount
    \/ /\ ~Answered
       /\ \E form \in
                [firstName : {<<"F">>}, lastName : {<<"L">>, <<" ">>},
                 email : {EmailA, <<"b", "@", "x", " ">>},
                 phone : {<<"9">>, <<"9", "8", "7", "6", "5", "4", "3", "2", "1", "0">>},
                 password : {<<"p">>, <<"p", "p", "p", "p", "p", "p">>}] :
             PressCreateAccount(form)
    \/ /\ ~Answered /\ ui.registers # <<>>
       /\ Register("c2", Head(ui.registers).body)
    \/ ~Answered /\ RegisterSave("c2")
    \/ CreateAccountResponse
    \/ ~Answered /\ req["c2"] = Idle /\ CreateAccountNetworkError
SpecSignIn == InitSignIn /\ [][NextSignIn]_vars

\* Every route of the server, one request at a time.
CheckBodies ==
    AccountBodies({TenantA, TenantB, <<"z", "z">>, <<>>}, {EmailA, <<>>}, {<<>>})
NextEndpoints ==
    \/ NextServer
    \/ \E body \in CheckBodies : CheckUser("c1", body)
    \/ Health
    \/ \E tenant \in SearchTenants : SearchProducts("c1", tenant, <<"r", "e", "d">>)
    \/ Clock
SpecEndpoints == Init /\ [][NextEndpoints]_vars

----------------------------------------------------------------------------
(* Properties. *)

\* An account of the tenant the body names with the body's email, compared
\* without regard to case.
AccountsOf(body) ==
    {i \in 1..Len(accounts) :
        /\ accounts[i].adminObjectId = ToLowerCase(body.adminObjectId)
        /\ ToLowerCase(accounts[i].email) = ToLowerCase(body.email)}

\* The password an account was registered with.
RegisteredPassword(account) == account.password.digest[2]

\* The body has every field the route requires and names a tenant.
WellFormed(body) ==
    /\ body.firstName # <<>> /\ body.lastName # <<>> /\ body.phone # <<>>
    /\ body.email # <<>> /\ body.password # <<>>
    /\ body.adminObjectId # <<>>
    /\ \A i \in 1..Len(body.adminObjectId) : body.adminObjectId[i] \in HexDigits

\* C1: in every reachable state of the account store, whatever registrations and
\* create-user requests ran, one after the other or interleaved, no two accounts
\* have the same tenant and the same lower-cased email.
C1_OneAccountPerTenantEmail ==
    \A i, j \in 1..Len(accounts) :
        (/\ accounts[i].adminObjectId = accounts[j].adminObjectId
         /\ ToLowerCase(accounts[i].email) = ToLowerCase(accounts[j].email)) => i = j

\* Two requests for one pair interleaved, and the index refused the second insert.
C1_Witness ==
    /\ out.status = 500 /\ out.error = ErrDupKey
    /\ AccountsOf(out.in) # {}

\* C2: a registration for a tenant and email that already have an account, the
\* email compared without regard to case, is answered 400 'User already exists
\* with this email' without a token, and does not go on to a save; the store and
\* the issued tokens stay as they were.
C2_DuplicateRefused ==
    [][/\ \A r \in Conns :
            (req[r] = Idle /\ req'[r] # Idle /\ req'[r].op = "register")
                => AccountsOf(req'[r].body) = {}
       /\ (/\ out'.op = "register" /\ req' = req
           /\ WellFormed(out'.in) /\ AccountsOf(out'.in) # {})
              => /\ out'.status = 400 /\ out'.error = ErrDuplicate
                 /\ out'.data = NoData
                 /\ accounts' = accounts /\ issued' = issued]_vars

\* A registration with the email in upper case was refused as a duplicate of the
\* account registered with it in lower case.
C2_Witness ==
    /\ out.op = "register" /\ out.status = 400 /\ out.error = ErrDuplicate
    /\ out.in.email # ToLowerCase(out.in.email)
    /\ \E i \in AccountsOf(out.in) : accounts[i].email = ToLowerCase(out.in.email)

\* C3: when two registrations for one tenant and email interleave, the one that
\* does not create the account fails with 'User already exists with this email'
\* (400) and with no other error.
C3_LoserGetsDuplicateAccount ==
    (/\ out.op = "register" /\ out.status # 200
     /\ WellFormed(out.in) /\ AccountsOf(out.in) # {})
        => (out.status = 400 /\ out.error = ErrDuplicate)

\* C4: a login with well-formed input returns a token if and only if the tenant
\* has an account with the lower-cased email and the password is the one the
\* account was registered with; otherwise it is answered 401 'Invalid email or
\* password'; a failed login changes nothing, a successful one only issues the
\* token.
C4_LoginIffCredentialsMatch ==
    [][(out'.op = "login" /\ WellFormed(out'.in)) =>
          /\ out'.status = 200
                <=> \E i \in AccountsOf(out'.in) :
                        RegisteredPassword(accounts[i]) = out'.in.password
          /\ out'.status = 200 =>
                /\ out'.data # NoData
                /\ out'.data.userId \in AccountsOf(out'.in)
                /\ issued' = issued \cup {out'.data.token}
          /\ out'.status # 200 =>
                /\ out'.status = 401 /\ out'.error = ErrCredentials
                /\ out'.data = NoData
                /\ issued' = issued
          /\ accounts' = accounts /\ req' = req]_vars

\* A login with the email in upper case succeeded, and one with the other
\* password of the model would not.
C4_Witness ==
    /\ out.op = "login" /\ out.status = 200
    /\ out.in.email # ToLowerCase(out.in.email)
    /\ Len(accounts) = 2

\* The routes behind authenticateToken.
Protected ==
    {"cart", "wishlist", "orders", "get-profile", "get-cart", "get-wishlist", "get-orders"}

\* The accounts a step changed.
Changed == {i \in 1..Len(accounts) : accounts'[i] # accounts[i]}

\* C5: accounts are partitioned by tenant.  A login succeeds only for an account
\* of the tenant the request names, registered there with the request's
\* password, whatever the other tenants hold; a registration is refused as a
\* duplicate only when the tenant it names has the email, and otherwise creates
\* an account of that tenant; and a step changes at most the account of the
\* token it was called with, by a cart, wishlist or order request, never that
\* account's tenant and never another account.
C5_TenantPartition ==
    [][/\ (out'.op = "login" /\ out'.status = 200) =>
             /\ accounts[out'.data.userId].adminObjectId
                    = ToLowerCase(out'.in.adminObjectId)
             /\ RegisteredPassword(accounts[out'.data.userId]) = out'.in.password
       /\ (out'.op = "register" /\ WellFormed(out'.in)) =>
             /\ out'.status = 400 <=> AccountsOf(out'.in) # {}
             /\ out'.status # 400 =>
                   /\ out'.status = 200
                   /\ Len(accounts') = Len(accounts) + 1
                   /\ accounts'[Len(accounts')].adminObjectId
                          = ToLowerCase(out'.in.adminObjectId)
                   /\ \A i \in 1..Len(accounts) :
                          ToLowerCase(accounts[i].email) = ToLowerCase(out'.in.email)
                              => accounts[i].adminObjectId
                                     # accounts'[Len(accounts')].adminObjectId
       /\ Len(accounts') >= Len(accounts)
       /\ \A i \in Changed :
             /\ out'.op \in {"cart", "wishlist", "orders"}
             /\ out'.in.cred.token.userId = i
             /\ accounts'[i].adminObjectId = accounts[i].adminObjectId
             /\ accounts'[i].email = accounts[i].email]_vars

\* The email has an account under each of two tenants, one of them has put a
\* product in its cart and the other's cart is empty, and a login under one
\* tenant with the password registered under the other was refused.
C5_Witness ==
    /\ out.op = "login" /\ out.status = 401
    /\ \E i, j \in 1..Len(accounts) :
          /\ accounts[i].email = accounts[j].email
          /\ accounts[i].adminObjectId # accounts[j].adminObjectId
          /\ accounts[i].cart # <<>> /\ accounts[j].cart = <<>>
          /\ accounts[j].adminObjectId = ToLowerCase(out.in.adminObjectId)
          /\ RegisteredPassword(accounts[i]) = out.in.password

\* C6: every token issued by register, create-user or login carries the id and
\* the email of an account in the store and the adminObjectId string of the
\* request, which denotes the ObjectId stored as that account's tenant; and a
\* protected request answers from, and changes, only the account of its token.
C6_TokenBindsAccount ==
    [][/\ \A t \in issued' :
             /\ t.userId \in 1..Len(accounts')
             /\ accounts'[t.userId].email = t.email
             /\ accounts'[t.userId].adminObjectId = ObjectId(t.adminObjectId)
       /\ (out'.op \in {"register", "create-user", "login"} /\ out'.status = 200) =>
             /\ out'.data.token \in issued'
             /\ out'.data.token.userId = out'.data.userId
             /\ out'.data.token.adminObjectId = out'.in.adminObjectId
       /\ (out'.op \in Protected /\ out'.status = 200) =>
             LET t == out'.in.cred.token
                 own == accounts'[t.userId]
             IN /\ t \in issued
                /\ own.adminObjectId = ObjectId(t.adminObjectId)
                /\ Changed \subseteq {t.userId}
                /\ out'.op \in {"cart", "get-cart"} => out'.data = own.cart
                /\ out'.op \in {"wishlist", "get-wishlist"} => out'.data = own.wishlist
                /\ out'.op = "get-orders" => out'.data = own.purchaseHistory
                /\ out'.op = "get-profile" => out'.data.email = t.email
                /\ out'.op = "orders" =>
                      /\ own.purchaseHistory
                            = accounts[t.userId].purchaseHistory \o out'.data.items
                      /\ own.cart = <<>>]_vars

\* The account of the second tenant, registered with its tenant written in
\* upper case, put a product in its cart with the token of its registration,
\* and the first tenant's account has nothing in its cart.
C6_Witness ==
    /\ out.op = "cart" /\ out.status = 200
    /\ out.in.cred.token.userId = 2
    /\ out.in.cred.token.adminObjectId # ToLowerCase(out.in.cred.token.adminObjectId)
    /\ accounts[2].cart # <<>> /\ accounts[1].cart = <<>>

\* A token the server issued, before its expiry.
ValidCredential(cred) == cred.token \in issued /\ ~cred.expired

\* C7: a protected handler goes on to an account only with a valid token.  A
\* request without a token is answered 401 'Access token required', one with a
\* forged or expired token 403 'Invalid or expired token'; neither returns data,
\* changes an account or goes on to a save.
C7_TokenCheckedFirst ==
    [][/\ \A r \in Conns :
            (req[r] = Idle /\ req'[r] # Idle) => ValidCredential(req'[r].in.cred)
       /\ out'.op \in Protected =>
            /\ out'.in.cred.token = NoToken =>
                  /\ out'.status = 401 /\ out'.error = ErrNoToken
                  /\ out'.data = NoData /\ accounts' = accounts /\ req' = req
            /\ (out'.in.cred.token # NoToken /\ ~ValidCredential(out'.in.cred)) =>
                  /\ out'.status = 403 /\ out'.error = ErrBadToken
                  /\ out'.data = NoData /\ accounts' = accounts /\ req' = req
            /\ out'.status \notin {401, 403} => ValidCredential(out'.in.cred)]_vars

\* A request to place an order, for a cart with a product in it, presented the
\* account's own token after its expiry and was answered 403; the cart is as it
\* was.
C7_Witness ==
    /\ out.op = "orders" /\ out.status = 403
    /\ out.in.cred.token \in issued /\ out.in.cred.expired
    /\ accounts[out.in.cred.token.userId].cart # <<>>

\* The quantity a request body asks for: 1 when it names none.
Requested(body) == IF body.quantity = <<>> THEN 1 ELSE body.quantity[1]

\* The quantity a list holds of a product: 0 when it has no line of it.
Held(list, lines) == IF lines = {} THEN 0 ELSE list[CHOOSE i \in lines : TRUE].quantity

\* C8: AddToCart called twice with one product and the quantities q1 and q2
\* yields one line item of quantity q1 + q2.  Step by step: a successful call for
\* a product the cart does not hold leaves exactly one line of it with the
\* requested quantity, and a successful call for a product the cart holds leaves
\* that one line with the held quantity plus the requested one; on the server
\* for POST /api/users/cart, in the client for CartManager.addItem.
C8_TwiceAddsQuantities ==
    [][/\ (out'.op = "cart" /\ out'.status = 200) =>
             LET id == out'.in.cred.token.userId
                 product == out'.in.body.productId
                 before == accounts[id].cart
                 after == accounts'[id].cart
             IN /\ Cardinality(Lines(after, product)) = 1
                /\ Held(after, Lines(after, product))
                      = Held(before, Lines(before, product)) + Requested(out'.in.body)
       /\ (out'.op = "addItem" /\ out'.error = "") =>
             LET product == out'.in.id
             IN /\ Cardinality(IdsAt(items', product)) = 1
                /\ Held(items', IdsAt(items', product))
                      = Held(items, IdsAt(items, product)) + out'.in.quantity]_vars

\* C9: in every reachable state no product has two line items in an account's
\* cart or two entries in its wishlist, whatever AddToCart, AddToWishlist and
\* PlaceOrder requests ran and however they interleaved; and none has two in the
\* client's CartManager or WishlistManager.
C9_ProductAtMostOnce ==
    /\ \A a \in 1..Len(accounts) :
          /\ \A i, j \in 1..Len(accounts[a].cart) :
                accounts[a].cart[i].productId = accounts[a].cart[j].productId => i = j
          /\ \A i, j \in 1..Len(accounts[a].wishlist) :
                accounts[a].wishlist[i].productId = accounts[a].wishlist[j].productId
                    => i = j
    /\ \A i, j \in 1..Len(items) : items[i].id = items[j].id => i = j
    /\ \A i, j \in 1..Len(wishItems) : wishItems[i].id = wishItems[j].id => i = j

\* C10: AddToWishlist is idempotent.  The first call, for a product the stored
\* wishlist does not hold when the handler looks and when it saves, leaves
\* exactly one entry of it.  The second call, for a product the stored wishlist
\* holds, never goes on to a save: it is answered at once with the wishlist as
\* it is and leaves every account as it was, its updatedAt included.  In the
\* client, WishlistManager.addItem for a product the list holds leaves the list
\* as it was, and in either case the list then has exactly one entry of it.
C10_WishlistIdempotent ==
    [][/\ \A r \in Conns :
            (req[r] = Idle /\ req'[r] # Idle) =>
                Lines(accounts[req'[r].id].wishlist, req'[r].in.body.productId) = {}
       /\ (out'.op = "wishlist" /\ out'.status = 200) =>
            LET id == out'.in.cred.token.userId
                product == out'.in.body.productId
                held == Lines(accounts[id].wishlist, product) # {}
            IN /\ req' = req =>
                     /\ held
                     /\ accounts' = accounts
                     /\ out'.data = accounts[id].wishlist
               /\ (req' # req /\ ~held) =>
                     Cardinality(Lines(accounts'[id].wishlist, product)) = 1
       /\ out'.op = "wishlist.addItem" =>
            /\ IdsAt(wishItems, out'.in.id) # {} => wishItems' = wishItems
            /\ Cardinality(IdsAt(wishItems', out'.in.id)) = 1]_vars

\* The second request for a product was answered with the wishlist of one
\* entry, after the clock had moved on from the account's updatedAt.
C10_Witness ==
    /\ out.op = "wishlist" /\ out.status = 200
    /\ \A r \in Conns : req[r] = Idle
    /\ Cardinality(Lines(accounts[1].wishlist, out.in.body.productId)) = 1
    /\ accounts[1].updatedAt < now

\* C11: PlaceOrder on an account whose cart is empty is answered 400 'Cart is
\* empty' without data, and leaves every account as it was: cart, purchase
\* history, wishlist and updatedAt; the handler goes on to a save only with a
\* cart that is not empty.
C11_EmptyCartRefused ==
    [][/\ \A r \in Conns :
            (req[r] = Idle /\ req'[r] # Idle /\ req'[r].op = "orders")
                => accounts[req'[r].id].cart # <<>>
       /\ (out'.op = "orders" /\ req' = req) =>
            /\ accounts[out'.in.cred.token.userId].cart = <<>>
            /\ out'.status = 400 /\ out'.error = ErrEmptyCart
            /\ out'.data = NoData
            /\ accounts' = accounts]_vars

\* An order was refused for an account that has an earlier purchase and a
\* wishlist entry, after the clock had moved on from its updatedAt.
C11_Witness ==
    /\ out.op = "orders" /\ out.status = 400 /\ out.error = ErrEmptyCart
    /\ \A r \in Conns : req[r] = Idle
    /\ accounts[1].cart = <<>>
    /\ accounts[1].purchaseHistory # <<>> /\ accounts[1].wishlist # <<>>
    /\ accounts[1].updatedAt < now

RECURSIVE SumOfLines(_)
\* The sum over line items of price times quantity, from the first.
SumOfLines(list) ==
    IF list = <<>> THEN 0
    ELSE Head(list).price * Head(list).quantity + SumOfLines(Tail(list))

\* C12: PlaceOrder on a cart that is not empty succeeds; the purchase history
\* afterwards is the history before followed by one entry per cart line item,
\* in cart order, with the line's product, price and quantity; the cart is
\* empty; and the total returned is the sum of price times quantity over the
\* lines that were in the cart.
C12_OrderDrainsCart ==
    [][(out'.op = "orders" /\ req' # req) =>
          LET id == out'.in.cred.token.userId
              cart == accounts[id].cart
              history == accounts[id].purchaseHistory
              after == accounts'[id].purchaseHistory
          IN /\ out'.status = 200
             /\ cart # <<>>
             /\ Len(after) = Len(history) + Len(cart)
             /\ SubSeq(after, 1, Len(history)) = history
             /\ \A i \in 1..Len(cart) :
                   /\ after[Len(history) + i].productId = cart[i].productId
                   /\ after[Len(history) + i].price = cart[i].price
                   /\ after[Len(history) + i].quantity = cart[i].quantity
             /\ out'.data.items = SubSeq(after, Len(history) + 1, Len(after))
             /\ accounts'[id].cart = <<>>
             /\ out'.data.total = SumOfLines(cart)]_vars

\* An order of two of the product at 10 and one of the product at 5 returned
\* the total 25.
C12_Witness ==
    /\ out.op = "orders" /\ out.status = 200
    /\ Len(out.data.items) = 2
    /\ out.data.items[1].quantity = 2 /\ out.data.items[1].price = 10
    /\ out.data.items[2].quantity = 1 /\ out.data.items[2].price = 5
    /\ out.data.total = 25
    /\ accounts[1].cart = <<>> /\ Len(accounts[1].purchaseHistory) = 2

\* C13: the purchase history is append-only.  In every step of every operation
\* the history of each account before the step is a prefix of its history after
\* the step, and a step that lengthens it is a successful PlaceOrder of that
\* account.
C13_HistoryAppendOnly ==
    [][\A a \in 1..Len(accounts) :
          LET history == accounts[a].purchaseHistory
              after == accounts'[a].purchaseHistory
          IN /\ Len(accounts') >= Len(accounts)
             /\ Len(after) >= Len(history)
             /\ SubSeq(after, 1, Len(history)) = history
             /\ after # history =>
                   /\ out'.op = "orders" /\ out'.status = 200
                   /\ out'.in.cred.token.userId = a]_vars

\* A second order was added to a history that held an earlier one, bought at
\* another time.
C13_Witness ==
    /\ out.op = "orders" /\ out.status = 200
    /\ Len(accounts[1].purchaseHistory) = 2
    /\ accounts[1].purchaseHistory[1].purchaseDate
          # accounts[1].purchaseHistory[2].purchaseDate

\* C14: the cart handler reads, then writes, and nothing locks the account in
\* between, so the last write wins.  A save of a line's quantity is not refused
\* because another request changed that quantity after the handler had loaded
\* the account (the cart has the lines it had then): it answers 200 and stores
\* the quantity computed from the loaded copy, whatever is stored.  Hence two
\* concurrent requests can both succeed while the stored cart has the addition
\* of only one of them.
C14_LastWriteWins ==
    [][\A r \in Conns :
          (/\ req[r] # Idle /\ req'[r] = Idle /\ req[r].op = "cart"
           /\ req[r].delta.setQuantity # <<>>
           /\ Len(accounts[req[r].id].cart) = Len(req[r].data))
              => /\ out'.status = 200
                 /\ out'.data = req[r].data
                 /\ accounts'[req[r].id].cart =
                        [accounts[req[r].id].cart EXCEPT
                            ![req[r].delta.setQuantity[1]].quantity
                                = req[r].delta.setQuantity[2]]]_vars

\* One request has been answered 200 and its addition is stored; another, which
\* loaded the account before that, awaits a save that will be accepted and will
\* store less than the stored quantity plus its own addition.
C14_Witness ==
    /\ out.op = "cart" /\ out.status = 200
    /\ Requested(out.in.body) >= 1
    /\ \E r \in Conns :
          /\ req[r] # Idle /\ req[r].op = "cart"
          /\ req[r].delta.setQuantity # <<>>
          /\ req[r].user.v = accounts[req[r].id].v
          /\ out.in.cred.token.userId = req[r].id
          /\ Requested(req[r].in.body) >= 1
          /\ req[r].delta.setQuantity[2]
                < accounts[req[r].id].cart[req[r].delta.setQuantity[1]].quantity
                  + Requested(req[r].in.body)

\* The price the client charges for an item: its discount price if it has one.
Charged(item) == IF item.discountPrice > 0 THEN item.discountPrice ELSE item.price

RECURSIVE SumOfItems(_, _)
\* The sum of charged price times quantity over the first n items of a list.
SumOfItems(list, n) ==
    IF n = 0 THEN 0 ELSE SumOfItems(list, n - 1) + Charged(list[n]) * list[n].quantity

\* C15: after any sequence of addItem, removeItem, updateQuantity and clear,
\* the effective price of every cart item is its discountPrice if that is above
\* 0 and its price otherwise, and the subtotal the cart shows is the sum over
\* the items of effective price times quantity.
C15_SubtotalSumsEffectivePrices ==
    /\ \A i \in 1..Len(items) :
          /\ items[i].discountPrice > 0 => EffectivePrice(items[i]) = items[i].discountPrice
          /\ items[i].discountPrice <= 0 => EffectivePrice(items[i]) = items[i].price
    /\ Subtotal(items) = SumOfItems(items, Len(items))
    /\ out.op = "totals" => out.data.subtotal = SumOfItems(out.in, Len(out.in))

\* The cart page showed the subtotal 13.00 of two items at the discount price
\* 4.00 and one item at 5.00 without a discount price.
C15_Witness ==
    /\ out.op = "totals" /\ out.in = items
    /\ Len(items) = 2
    /\ items[1].discountPrice = Fixed(4) /\ items[1].quantity = 2
    /\ items[2].discountPrice = 0 /\ items[2].price = Fixed(5) /\ items[2].quantity = 1
    /\ out.data.subtotal = Fixed(13)

\* C16: for every cart, gstAmount is 18 hundredths of the subtotal and
\* finalTotal is the subtotal plus gstAmount: neither the 8% tax nor a shipping
\* fee is part of it.  For the cart of two items at 10 and one at 5 the subtotal
\* is 25, the GST 4.5 and the final total 29.5.
C16_GstAndFinalTotal ==
    /\ GstAmount(items) * 100 = SumOfItems(items, Len(items)) * 18
    /\ FinalTotal(items) * 100 = SumOfItems(items, Len(items)) * 118
    /\ out.op = "totals" =>
          /\ out.data.gstAmount * 100 = out.data.subtotal * 18
          /\ out.data.finalTotal = out.data.subtotal + out.data.gstAmount
          /\ (/\ Len(out.in) = 2
              /\ Charged(out.in[1]) = Fixed(10) /\ out.in[1].quantity = 2
              /\ Charged(out.in[2]) = Fixed(5) /\ out.in[2].quantity = 1)
                 => /\ out.data.subtotal = 2500
                    /\ out.data.gstAmount = 450
                    /\ out.data.finalTotal = 2950

\* The cart page showed the amounts of the cart of two items at 10 and one at 5.
C16_Witness ==
    /\ out.op = "totals"
    /\ Len(out.in) = 2
    /\ out.in[1].price = Fixed(10) /\ out.in[1].discountPrice = 0
    /\ out.in[1].quantity = 2
    /\ out.in[2].price = Fixed(5) /\ out.in[2].quantity = 1
    /\ out.data.finalTotal = 2950

\* C17: applyShipping returns the total when the total is at or above the
\* threshold and the total plus the fee when it is below.  The cart's
\* finalTotalWithShipping applies it to the subtotal plus 8 hundredths of the
\* subtotal, with the threshold 100 and the fee 5.99, so that a total of exactly
\* 100 pays no fee.
C17_ShippingThreshold ==
    /\ out.op = "applyShipping" =>
          /\ out.in.total >= out.in.freeShippingThreshold => out.data = out.in.total
          /\ out.in.total < out.in.freeShippingThreshold
                => out.data = out.in.total + out.in.shippingFee
    /\ out.op = "totals" =>
          /\ out.data.totalWithTax * 100 = out.data.subtotal * 108
          /\ out.data.totalWithTax >= 10000
                => out.data.finalTotalWithShipping = out.data.totalWithTax
          /\ out.data.totalWithTax < 10000
                => out.data.finalTotalWithShipping = out.data.totalWithTax + 599

\* applyShipping was called with a total of exactly 100 and the threshold 100,
\* and returned the total.
C17_Witness ==
    /\ out.op = "applyShipping"
    /\ out.in.freeShippingThreshold = 10000
    /\ out.in.total = 10000
    /\ out.data = 10000

\* The string has a part that is the query when the case of letters is ignored.
ContainsIgnoringCase(string, query) ==
    \E i, j \in 1..Len(string) :
        i <= j /\ ToLowerCase(SubSeq(string, i, j)) = ToLowerCase(query)

\* C18: a search of a tenant's catalog returns exactly the products of the
\* catalog whose name or description contains the query, the case of letters
\* ignored, in the order of the catalog, and no product of another tenant.
C18_SearchFiltersCatalog ==
    (out.op = "search" /\ out.status = 200) =>
        LET catalog == AdminElementScreens[ToLowerCase(out.in.adminObjectId)]
            query == out.in.query
            matching == {i \in 1..Len(catalog) :
                            \/ ContainsIgnoringCase(catalog[i].productName, query)
                            \/ ContainsIgnoringCase(catalog[i].description, query)}
        IN /\ \E f \in [1..Len(out.data) -> 1..Len(catalog)] :
                 /\ \A k \in 1..Len(out.data) : out.data[k] = catalog[f[k]]
                 /\ \A k, l \in 1..Len(out.data) : k < l => f[k] < f[l]
                 /\ {f[k] : k \in 1..Len(out.data)} = matching
           /\ \A other \in DOMAIN AdminElementScreens :
                 other # ToLowerCase(out.in.adminObjectId) =>
                    \A k \in 1..Len(out.data), i \in 1..Len(AdminElementScreens[other]) :
                        out.data[k] # AdminElementScreens[other][i]

\* The search for "red" in the first tenant's catalog returned the product
\* named "Red", the one described as "rED" and the one named "redd", and left
\* out the one between them; the other tenant has a product named "red".
C18_Witness ==
    /\ out.op = "search" /\ out.status = 200
    /\ out.in.adminObjectId = <<"A", "A">>
    /\ out.in.query = <<"r", "e", "d">>
    /\ Len(out.data) = 3
    /\ out.data[1].id = "a1" /\ out.data[2].id = "a2" /\ out.data[3].id = "a4"

\* C19: every step in which the client adds an item to its cart or removes an
\* item from its cart or its wishlist sends the server a request.
C19_ClientActionCallsServer ==
    [][out'.op \in {"addItem", "removeItem", "wishlist.removeItem"} =>
          \E r \in Conns : req[r] = Idle /\ req'[r] # Idle]_vars

\* C20: under the buttons of the cart and wishlist pages every item of the
\* client's cart has a quantity of at least 1, updateQuantity is never called
\* with a quantity below 1, and the remove button on an item of quantity 1
\* takes the item out of the cart.
C20_QuantityAtLeastOne ==
    [][/\ \A i \in 1..Len(items') : items'[i].quantity >= 1
       /\ out'.op = "updateQuantity" => out'.in[2] >= 1
       /\ \A index \in 1..Len(items) :
             (items[index].quantity = 1 /\ OnPressedRemove(index)) =>
                /\ IdsAt(items', items[index].id) = {}
                /\ Len(items') = Len(items) - 1
                /\ out'.op = "removeItem"]_vars

\* The remove button was pressed on the first of two items, whose quantity
\* was 1: the call was removeItem and the other item, of quantity 2, remains.
C20_Witness ==
    /\ out.op = "removeItem" /\ out.in = "p1"
    /\ Len(items) = 1 /\ items[1].id = "p2" /\ items[1].quantity = 2
    /\ Len(wishItems) = 2

\* C21: the body of every response has a boolean success field, the body of a
\* failure has success false and an error message, and the body of a
\* successful registration or login has the token inside data.
C21_Envelope ==
    out.op # "none" =>
        LET body == Json(out)
        IN /\ "success" \in DOMAIN body
           /\ body.success \in BOOLEAN
           /\ out.status >= 400 =>
                 body.success = FALSE /\ "error" \in DOMAIN body /\ body.error # ""
           /\ (out.op \in {"register", "create-user", "login"} /\ out.status = 200) =>
                 "data" \in DOMAIN body /\ "token" \in DOMAIN body.data

\* C22: a step that answers a request with a failure changes no account and
\* issues no token, and ends the request: the request has no step after it.
\* A step that answers nothing, the first half of a request that awaits its
\* save, changes no account either, so a failed request has written nothing.
C22_FailureIsTerminal ==
    [][/\ (out'.op # "none" /\ out'.status >= 400) =>
             /\ accounts' = accounts
             /\ issued' = issued
             /\ \A r \in Conns : req'[r] = req[r] \/ req'[r] = Idle
       /\ out'.op = "none" => accounts' = accounts]_vars

\* Two orders of one cart were in flight; the first was saved and the save of
\* the second failed: the history holds the line once and the cart is empty.
C22_Witness ==
    /\ out.op = "orders" /\ out.status = 500 /\ out.error = ErrVersion
    /\ Len(accounts[1].purchaseHistory) = 1
    /\ accounts[1].cart = <<>>
    /\ \A r \in Conns : req[r] = Idle

\* A required field of the body is missing.
Incomplete(body) == \E field \in RequiredFields : body[field] = <<>>

\* The tenant reference of the body is a string of hexadecimal digits.
Hexadecimal(s) == s # <<>> /\ \A i \in 1..Len(s) : s[i] \in HexDigits

\* C23: a registration whose body lacks a required field is answered 400
\* 'All fields are required', whatever its tenant reference and whether or not
\* the account exists; a complete one with a malformed tenant reference is
\* answered 400 'Invalid adminObjectId'; neither creates an account; and only
\* a complete body with a well-formed tenant reference is answered as a
\* duplicate or goes on to be saved.
C23_ValidationOrder ==
    [][/\ (out'.op = "register" /\ req' = req) =>
             /\ Incomplete(out'.in) =>
                   out'.status = 400 /\ out'.error = ErrAllFields
             /\ (~Incomplete(out'.in) /\ ~Hexadecimal(out'.in.adminObjectId)) =>
                   out'.status = 400 /\ out'.error = ErrInvalidAdmin
             /\ out'.error = ErrDuplicate =>
                   /\ ~Incomplete(out'.in) /\ Hexadecimal(out'.in.adminObjectId)
                   /\ AccountsOf(out'.in) # {}
             /\ accounts' = accounts
       /\ \A r \in Conns :
             (req[r] = Idle /\ req'[r] # Idle) =>
                /\ ~Incomplete(req'[r].body)
                /\ Hexadecimal(req'[r].body.adminObjectId)
                /\ AccountsOf(req'[r].body) = {}
                /\ accounts' = accounts]_vars

\* With an account stored, a registration without a phone and with a malformed
\* tenant reference was answered 'All fields are required'.
C23_Witness ==
    /\ out.op = "register" /\ out.status = 400 /\ out.error = ErrAllFields
    /\ out.in.phone = <<>> /\ out.in.adminObjectId = <<"z", "z">>
    /\ Len(accounts) = 2

\* The account after differs from the account before in nothing but its cart,
\* its modification timestamp and the version key Mongoose keeps.
OnlyCartAndTimestamp(before, after) ==
    after = [before EXCEPT !.cart = after.cart, !.updatedAt = after.updatedAt,
                           !.v = after.v]

\* The steps in which connection r receives the answer of a successful
\* AddToCart.
CartSaved(r) ==
    /\ req[r] # Idle /\ req'[r] = Idle /\ req[r].op = "cart"
    /\ out'.status = 200

\* C24 as claimed: a successful AddToCart leaves the account with a
\* modification timestamp that is not earlier than the one it had, and changes
\* nothing of it but the cart and the timestamp.
C24_TimestampAdvances ==
    [][\A r \in Conns :
          CartSaved(r) =>
             /\ accounts'[req[r].id].updatedAt >= accounts[req[r].id].updatedAt
             /\ OnlyCartAndTimestamp(accounts[req[r].id], accounts'[req[r].id])]_vars

\* C24: the handler of AddToCart takes the server time, which is not earlier
\* than the timestamp of the account it loaded; its save, when it succeeds,
\* stores that time as the modification timestamp, whatever timestamp is stored
\* by then, and changes nothing of the account but the cart and the timestamp,
\* and no other account.
C24_CartFrame ==
    [][\A r \in Conns :
          /\ (req[r] = Idle /\ req'[r] # Idle /\ req'[r].op = "cart") =>
                /\ req'[r].user.updatedAt = now
                /\ now >= accounts[req'[r].id].updatedAt
          /\ CartSaved(r) =>
                /\ accounts'[req[r].id].updatedAt = req[r].user.updatedAt
                /\ OnlyCartAndTimestamp(accounts[req[r].id], accounts'[req[r].id])
                /\ Len(accounts') = Len(accounts)
                /\ \A a \in 1..Len(accounts) :
                      a # req[r].id => accounts'[a] = accounts[a]]_vars

\* An addition to the cart of an account that has a wishlist and a purchase
\* history was saved, and the account has the later time as its timestamp.
C24_Witness ==
    /\ out.op = "cart" /\ out.status = 200
    /\ accounts[1].updatedAt = 1
    /\ accounts[1].cart # <<>>
    /\ accounts[1].wishlist # <<>> /\ accounts[1].purchaseHistory # <<>>

\* Connection r awaits the save of an order of the account.
OrderPending(r, account) ==
    req[r] # Idle /\ req[r].op = "orders" /\ req[r].id = account

\* C25: an order that succeeds appends to the history the lines of the cart
\* that is stored when it is saved, product by product, and empties that cart;
\* every other order of the account that was in flight then has loaded an
\* older version of the account, and the save of an order that has loaded an
\* older version fails and appends nothing.  So of two orders that interleave
\* on one cart only one succeeds, and the lines are appended once.
C25_OneOrderPerCart ==
    [][\A r \in Conns :
          (req[r] # Idle /\ req[r].op = "orders" /\ req'[r] = Idle) =>
             LET account == req[r].id
                 stored == accounts[account].cart
                 pushed == req[r].delta.pushHistory
             IN /\ out'.status = 200 =>
                      /\ stored # <<>> /\ Len(stored) = Len(pushed)
                      /\ \A i \in 1..Len(stored) :
                            stored[i].productId = pushed[i].productId
                      /\ accounts'[account].purchaseHistory
                            = accounts[account].purchaseHistory \o pushed
                      /\ accounts'[account].cart = <<>>
                      /\ \A other \in Conns \ {r} :
                            OrderPending(other, account) =>
                               req[other].user.v < accounts'[account].v
                /\ req[r].user.v # accounts[account].v =>
                      out'.status = 500 /\ accounts' = accounts]_vars

\* Two orders of one cart were in flight and the first has been answered 200:
\* the history holds the lines the other one is about to save.
C25_Witness ==
    /\ out.op = "orders" /\ out.status = 200
    /\ \E r \in Conns :
          /\ OrderPending(r, 1)
          /\ req[r].delta.pushHistory = accounts[1].purchaseHistory
    /\ accounts[1].cart = <<>>

\* C26: two orders that are placed one after the other, on the same or on
\* different accounts, have different order identifiers.
C26_DistinctOrderIds ==
    [][(/\ out.op = "orders" /\ out.status = 200
        /\ out'.op = "orders" /\ out'.status = 200
        /\ req' # req) =>
          out'.data.orderId # out.data.orderId]_vars

\* C27: for one account whose requests follow one another, the totals of the
\* successful orders add up to the sum of price times quantity over the
\* purchase history.  Both sums are 0 at first; a successful order returns as
\* its total exactly what it adds to the sum over the history, and no other
\* step changes that sum.
C27_TotalsSumToHistory ==
    [][LET before == SumOfLines(accounts[1].purchaseHistory)
           after == SumOfLines(accounts'[1].purchaseHistory)
       IN IF out'.op = "orders" /\ out'.status = 200
          THEN out'.data.total = after - before
          ELSE after = before]_vars

\* A second order was placed: its total is 5 and the history, which held an
\* order of 20, sums to 25.
C27_Witness ==
    /\ out.op = "orders" /\ out.status = 200
    /\ out.data.total = 5
    /\ Len(accounts[1].purchaseHistory) = 2
    /\ SumOfLines(accounts[1].purchaseHistory) = 25

\* C28: with requests whose quantity is absent, 0 or positive, every line of
\* every stored cart has a quantity of at least 1.  The handler of a signed-in
\* client's AddToCart refuses no quantity: it goes on to its save with a new
\* line of the quantity asked for, or with the line's quantity raised by it,
\* where an absent quantity and 0 ask for 1; and no AddToCart is answered with
\* a 4xx status.
C28_QuantityZeroIsOne ==
    [][/\ \A a \in 1..Len(accounts') : \A i \in 1..Len(accounts'[a].cart) :
             accounts'[a].cart[i].quantity >= 1
       /\ \A r \in Conns :
             (req[r] = Idle /\ req'[r] # Idle /\ req'[r].op = "cart") =>
                LET body == req'[r].in.body
                    asked == IF body.quantity = <<>> THEN 1
                             ELSE IF body.quantity[1] = 0 THEN 1
                             ELSE body.quantity[1]
                    cart == accounts[req'[r].id].cart
                    lines == {i \in 1..Len(cart) : cart[i].productId = body.productId}
                IN IF lines = {}
                   THEN /\ Len(req'[r].delta.pushCart) = 1
                        /\ req'[r].delta.pushCart[1].productId = body.productId
                        /\ req'[r].delta.pushCart[1].quantity = asked
                   ELSE \E i \in lines :
                           req'[r].delta.setQuantity = <<i, cart[i].quantity + asked>>
       /\ out'.op = "cart" => out'.status \in {200, 500}
       /\ (out'.op = "cart" /\ out'.status = 500) => out'.error = ErrVersion]_vars

\* A request with quantity 0 for a product that was not in the cart was saved:
\* the cart has the product with quantity 1.
C28_Witness ==
    /\ out.op = "cart" /\ out.status = 200
    /\ out.in.body.quantity = <<0>>
    /\ Len(accounts[1].cart) = 1
    /\ accounts[1].cart[1].quantity = 1

\* The client's items and the server's lines name the same products with the
\* same quantities in the same order.
SameLines(list, cart) ==
    /\ Len(list) = Len(cart)
    /\ \A i \in 1..Len(list) :
          list[i].id = cart[i].productId /\ list[i].quantity = cart[i].quantity

\* C29: after the same additions, of quantities of at least 1 and without
\* discount prices, the client's cart and the server's cart (the stored one and
\* the one the server answered with) have the same products with the same
\* quantities in the same order, and the total of an order placed then is the
\* client's subtotal.
C29_ClientMirrorsServer ==
    /\ (out.op = "cart" /\ out.status = 200) =>
          /\ SameLines(items, accounts[1].cart)
          /\ SameLines(items, out.data)
          /\ SumOfItems(items, Len(items)) = SumOfLines(accounts[1].cart)
    /\ out.op = "orders" => (out.status = 200 /\ out.data.total = Subtotal(items))

\* Both carts hold the second product with quantity 2 before the first with
\* quantity 3, which was added in two parts, and an order of them returned 40.
C29_Witness ==
    /\ out.op = "orders" /\ out.status = 200
    /\ Len(items) = 2
    /\ items[1].id = "p2" /\ items[1].quantity = 2
    /\ items[2].id = "p1" /\ items[2].quantity = 3
    /\ out.data.total = 40

\* C30: HomePage is shown only by the step that takes a login response with
\* status 200 and success = true; a step that ends a login request in any
\* other way, a failed response or a network error, leaves the pages as they
\* were, without HomePage, and the sign-in page's loading flag false; the step
\* that takes a successful registration response returns to the sign-in page,
\* shows no HomePage and sends no login; and a login request is in flight only
\* while the loading flag disables the button, so never two at once.
Shown(pages, page) == \E i \in 1..Len(pages) : pages[i] = page
LoginSucceeded == out.op = "login" /\ out.status = 200 /\ Json(out).success = TRUE
====
